---- MODULE Spec2Model ----
(***************************************************************************)
(* Model of the starboard pipeline of LCC-bot (src/cogs/starboard.py).     *)
(*                                                                         *)
(* StarBoardCog.on_star_add is one asyncio task per reaction event; it is  *)
(* modelled as a process whose position (pc) advances by one awaited call  *)
(* per step.  StarBoardCog.archive_image is the detached task created by   *)
(* bot.loop.create_task.  The guild (reactions, edits, out-of-band         *)
(* deletions, the starboard channel's availability) is the environment.    *)
(***************************************************************************)
EXTENDS Integers, Sequences, FiniteSets, TLC

\* ---------------------------------------------------------------- bounds
NumMsgs   == 1      \* source messages
NumUsers  == 2      \* users that can react; user 1 is the author
MaxEvents == 2      \* reaction events delivered (handler tasks)
MaxPosts  == 2      \* messages the bot may post to the starboard channel
MaxEdits  == 1      \* edits of a source message

Msgs     == 1..NumMsgs
Users    == 1..NumUsers
Handlers == 1..MaxEvents
Author   == 1
\* Ids are unique across channels: source messages use 1..NumMsgs, the
\* messages the bot posts use NumMsgs+1 .. NumMsgs+MaxPosts.
MirrorIds == (NumMsgs + 1)..(NumMsgs + MaxPosts)
None     == 0       \* null starboard_message / no lock holder

\* Populations the cap is computed from (member counts).
Populations == {0, 20}

VARIABLES
    reactions,      \* reactions[m]: users whose star reaction is on message m
    edited,         \* edited[m]: version of m's content (bumped by an edit)
    exists,         \* exists[m]: the source message has not been deleted
    in_starboard,   \* in_starboard[m]: m itself lives in the channel named "starboard"
    has_image,      \* has_image[m]: m has a non-spoiler image attachment
    member_count,   \* population of the source channel / guild
    mirrors,        \* messages the bot posted that are still in that channel
    next_id,        \* id of the next message the transport creates
    pending_delete, \* source messages with a delayed delete in flight
    store,          \* rows of StarBoardMessage
    lock,           \* holder of StarBoardCog.lock, or None
    waiters,        \* FIFO of handlers suspended in lock.acquire()
    handler,        \* handler[i]: the i-th on_star_add task
    archiver,       \* archiver[i]: the archive_image task created by handler i
    delivered,      \* number of events delivered so far
    input,          \* the call a pure part of the cog is applied to
    clock,          \* the wall clock
    output,         \* what the calls on `input` have returned so far
    \* McDonaldsCog (src/cogs/mcdonalds.py)
    targets,        \* self.targets: member -> time of the last prompt
    cooldown,       \* self.cooldown: member -> time the break was ended
    mc_lock,        \* McDonaldsCog.lock: its holder and the FIFO of waiters
    on_message,     \* the on_message tasks, in the order the messages came
    commercial_break, \* the invocations of the "Commercial Break" command
    now,            \* utcnow() and datetime.now(), in seconds
    \* the web server (src/web/server.py) and the bridge (src/cogs/events.py)
    states,         \* app.state.states: OAuth state -> time it was issued
    authenticate,   \* the /auth requests: configuration, tasks and history
    bridge_queue,   \* the queue objects and which one is bot.bridge_queue
    bridge_recv,    \* the /bridge/recv connections, in the order they came
    on_bridge       \* history: payloads put, sent (to whom) and dropped

\* the variables of the other cogs; no step of the starboard touches them
cog_vars == <<targets, cooldown, mc_lock, on_message, commercial_break>>
mc_vars == <<cog_vars, now>>
auth_vars == <<states, authenticate>>
bridge_vars == <<bridge_queue, bridge_recv, on_bridge>>
other_vars == <<mc_vars, auth_vars, bridge_vars>>

vars == <<reactions, edited, exists, in_starboard, has_image, member_count,
          mirrors, next_id, pending_delete, store, lock, waiters,
          handler, archiver, delivered, input, clock, output, other_vars>>

\* The variables of the renderer, threshold and command checks (SpecPure);
\* no step of the star pipeline reads or writes them.
pure_vars == <<input, clock, output>>

env_vars == <<reactions, edited, exists, in_starboard, has_image, member_count>>

\* the variables of the star pipeline
star_vars == <<env_vars, mirrors, next_id, pending_delete, store, lock, waiters,
               handler, archiver, delivered>>

\* ------------------------------------------------------------ values
\* A fetched message: the number of users whose star is on it (tally) and
\* the reaction list Discord derives from it, the version of its content
\* (0: never edited), its attachments in order, its creation time, the
\* outcome of fetching the message it replies to ("none": it is not a
\* reply), whether that message is a reply in turn (ref_reference), and
\* the types of its own embeds.
NoMessage == [tally |-> 0, reactions |-> <<>>, ver |-> 0, attachments |-> <<>>,
              valid |-> FALSE, created_at |-> 0, reference |-> "none",
              ref_reference |-> "none", embeds |-> <<>>]
\* A generated embed: the source message, the star count and the text that
\* displays it, the content version, the image ("none", "remote": the url
\* image_url of an attachment, "local": a re-uploaded file), the send time,
\* the "In reply to" fields, one field per attachment, and the exception the
\* renderer raised instead of returning ("": it returned).
NoEmbed   == [src |-> 0, stars |-> 0, stars_text |-> <<>>, ver |-> 0,
              image |-> "none", image_url |-> 0,
              sent |-> [t |-> 0, style |-> ""], reply |-> <<>>,
              fields |-> <<>>, error |-> ""]
NoMsg     == [id |-> None, embed |-> NoEmbed]
NoRow     == [id |-> 0, channel |-> 0, starboard_message |-> None]

NewHandler == [pc |-> "unborn", message_id |-> 0, user_id |-> 0, event_type |-> "",
               star |-> FALSE, guild_id |-> FALSE,
               message |-> NoMessage, manage_messages |-> FALSE, star_count |-> 0,
               database |-> NoRow, entry |-> NoRow, created |-> FALSE,
               channel |-> "", msg |-> NoMsg, result |-> "",
               store0 |-> {}]   \* history: the store when the lock was taken

\* the image response `r` of archive_image: status code and len(r.content)
NoResponse == [status_code |-> 0, length |-> 0]

\* `rendered` is history: the embed the creating handler had just written
NoArchiver == [pc |-> "none", msg |-> NoMsg, rendered |-> NoEmbed,
               proxy_url |-> FALSE, r |-> NoResponse, FS_LIMIT |-> 0]
ArchiverDone == [NoArchiver EXCEPT !.pc = "done"]

\* ------------------------------------------------------------ Mirror Store
\* (mutant) a lookup that finds nothing answers with a blank row
Rows_default(id) ==
    IF \E r \in store : r.id = id THEN {r \in store : r.id = id}
    ELSE {[id |-> id, channel |-> id, starboard_message |-> None]}

\* StarBoardMessage.objects.get(id=...): the rows with that primary key.
Rows(id) == {r \in store : r.id = id}

\* (mutant) the update does not reach the table
Update_lost(id, mid) == store

\* entry.update(starboard_message=...): UPDATE ... WHERE id = entry.id
Update(id, mid) ==
    {IF r.id = id THEN [r EXCEPT !.starboard_message = mid] ELSE r : r \in store}

\* entry.delete(): DELETE ... WHERE id = entry.id
Delete(id) == {r \in store : r.id # id}

\* ------------------------------------------------------------ pure helpers
\* star_count computed at lines 131-135 (and 53-57) from the fetched
\* message: the count of the first star entry of message.reactions, 0 when
\* there is none
StarCount(message) ==
    LET star_count == SelectSeq(message.reactions, LAMBDA x : x.emoji = "star")
    IN  IF star_count = <<>> THEN 0 ELSE star_count[1].count

\* the text of a number as "{:,}".format writes it (below 1000 there is no
\* separator), one string per character
Digits == <<"0", "1", "2", "3", "4", "5", "6", "7", "8", "9">>
RECURSIVE format_count(_)
format_count(n) ==
    IF n < 10 THEN <<Digits[n + 1]>>
    ELSE format_count(n \div 10) \o <<Digits[(n % 10) + 1]>>

\* (mutant) the short form starts at five stars
stars_text_from_five(star_count) ==
    IF star_count >= 5 THEN <<"star", "x">> \o format_count(star_count)
    ELSE IF star_count = 0 THEN <<"no_entry">>
    ELSE [k \in 1..star_count |-> "star"]

\* lines 65-69: the text after "Star count: ", one string per character
stars_text(star_count) ==
    IF star_count > 5 THEN <<"star", "x">> \o format_count(star_count)
    ELSE IF star_count = 0 THEN <<"no_entry">>
    ELSE [k \in 1..star_count |-> "star"]

\* lines 102-111, one attachment after the other: `embed` is the embed so
\* far, k the position of the next file. A spoiler gets a masked link
\* field; any other file becomes the image when it is image-typed and no
\* image is set yet, and gets a plain link field. content_type is None
\* ("none") for a file whose type Discord did not recognise, and
\* None.startswith raises AttributeError (line 109).
RECURSIVE add_attachments(_, _, _)
add_attachments(embed, attachments, k) ==
    IF k > Len(attachments) THEN embed
    ELSE LET file == attachments[k]
             name == k - 1
         IN  IF file.spoiler
             THEN add_attachments(
                      [embed EXCEPT !.fields = Append(@,
                          [name |-> name, url |-> file.url, masked |-> TRUE])],
                      attachments, k + 1)
             ELSE IF file.content_type = "none"
             THEN [NoEmbed EXCEPT !.error = "AttributeError"]
             ELSE LET set_image == file.content_type = "image" /\ embed.image = "none"
                  IN  add_attachments(
                          [embed EXCEPT !.image = IF set_image THEN "remote" ELSE @,
                                        !.image_url = IF set_image THEN file.url ELSE @,
                                        !.fields = Append(@,
                              [name |-> name, url |-> file.url, masked |-> FALSE])],
                          attachments, k + 1)

\* (mutant) the comparison is off by one star
Qualifies_off_by_one(star_count, population) == 10 * (star_count + 1) >= population

\* (mutant) the cap is rounded down to a whole number of stars
Qualifies_floored(star_count, population) == star_count >= population \div 10

\* line 166: star_count >= cap with cap = population * 0.1 (a float; for
\* integer populations the double product p * 0.1 equals p / 10 exactly
\* whenever p is a multiple of 10, and is never an integer otherwise).
Qualifies(star_count, population) == 10 * star_count >= population

\* (mutant) the time is written out as the time elapsed until now
format_dt_elapsed(dt, style) == [t |-> clock - dt, style |-> "ago"]

\* discord.utils.format_dt(dt, 'R'), lines 77 and 81: the markup <t:dt:R>,
\* which the reader's client turns into a relative time
format_dt(dt, style) == [t |-> dt, style |-> style]

\* (mutant) the reply chain is followed as far as it goes
in_reply_to_chain(message) ==
    IF message.reference # "found" THEN <<>>
    ELSE IF message.ref_reference = "found" THEN <<"ref", "ref.reference">>
    ELSE <<"ref">>

\* lines 83-100: the messages shown in "In reply to" fields. The referenced
\* message is fetched once; discord.HTTPException is passed over and no
\* field is added; the reference of the fetched message is not looked at.
in_reply_to(message) ==
    IF message.reference = "found" THEN <<"ref">> ELSE <<>>

\* generate_starboard_embed: the embed is a function of the message snapshot:
\* star count (53-57, 65-69), description and edit line (60, 80-81), send
\* time (77), the "In reply to" field when the reference was fetched
\* (83-100) and the image (102-111)
generate_starboard_embed(m, message) ==
    add_attachments(
        [NoEmbed EXCEPT !.src = m, !.stars = StarCount(message),
                        !.stars_text = stars_text(StarCount(message)),
                        !.ver = message.ver,
                        !.sent = format_dt(message.created_at, "R"),
                        !.reply = in_reply_to(message)],
        message.attachments, 1)

\* message.reactions of a message that tally users have starred: Discord
\* lists an emoji only while at least one user's reaction is on the message
ReactionList(tally) ==
    IF tally = 0 THEN <<>> ELSE <<[emoji |-> "star", count |-> tally]>>

\* a non-spoiler image attachment
ImageFile == [url |-> 1, content_type |-> "image", spoiler |-> FALSE]

\* the live source message as fetch_message returns it
Snapshot(m) ==
    [NoMessage EXCEPT !.tally = Cardinality(reactions[m]),
                      !.reactions = ReactionList(Cardinality(reactions[m])),
                      !.ver = edited[m],
                      !.attachments = IF has_image[m] THEN <<ImageFile>> ELSE <<>>,
                      !.valid = TRUE]

\* (mutant) the mirror is never found
fetch_message_never(id) == {}

\* channel.fetch_message(id) on the starboard channel (line 183): the bot's
\* mirror with that id, if it is still there
fetch_message(id) == {x \in mirrors : x.id = id}

\* (mutant) the event type is not looked at... and the wrong one is tested
SelfStar_remove(h) == h.user_id = Author /\ h.event_type = "REACTION_REMOVE"

\* line 125: message.author.id == payload.user_id and event_type == "REACTION_ADD"
SelfStar(h) == h.user_id = Author /\ h.event_type = "REACTION_ADD"

\* (mutant) the cap is compared for every record
compares_cap_always(created) == TRUE

\* line 159: `if created:` - whether the cap is compared at all
compares_cap(created) == created

\* discord.utils.get(message.guild.text_channels, name="starboard") together
\* with channel.can_send(): what a lookup may find.  The guild's channel list
\* and permissions are the environment's and may differ at every lookup:
\*   "none" - no such channel; "readonly" - it exists, can_send() is false;
\*   "ok" - it exists and can_send() is true
Channels == {"none", "readonly", "ok"}

TypeOK ==
    /\ reactions \in [Msgs -> SUBSET Users]
    /\ edited \in [Msgs -> 0..MaxEdits]
    /\ exists \in [Msgs -> BOOLEAN]
    /\ in_starboard \in [Msgs -> BOOLEAN]
    /\ has_image \in [Msgs -> BOOLEAN]
    /\ member_count \in Populations
    /\ \A x \in mirrors : x.id \in MirrorIds
    /\ next_id \in (NumMsgs + 1)..(NumMsgs + MaxPosts + 1)
    /\ pending_delete \subseteq Msgs
    /\ \A r \in store : r.id \in Msgs /\ r.starboard_message \in MirrorIds \cup {None}
    /\ lock \in Handlers \cup {None}
    /\ delivered \in 0..MaxEvents

\* ------------------------------------------------------------ pure parts
\* The renderer and the command that exposes it are applied to messages
\* drawn from bounded sets (SpecPure below); `input` is the call, `output`
\* the sequence of results.
MaxTally == 7       \* largest star tally of an input message
MaxAttachments == 2 \* most attachments of an input message
MaxCalls == 2       \* calls made on one input
MaxClock == 1       \* ticks of the clock

References == {"none", "failed", "found"}
\* the reference and, when it was fetched, the fetched message's own
ReferenceChains ==
    {<<r, "none">> : r \in References} \cup {<<"found", "found">>}

\* message.reactions with other emoji around the star entry
ReactionLists(tally) ==
    LET other == <<[emoji |-> "thumbs_up", count |-> 2]>>
    IN  {ReactionList(tally), other \o ReactionList(tally)}

\* attachments: url stands for the file's name and address
ContentTypes == {"image", "text", "none"}
Files(url) == {[url |-> url, content_type |-> c, spoiler |-> s] :
                  c \in ContentTypes, s \in BOOLEAN}
RECURSIVE AttachmentLists(_)
AttachmentLists(n) ==
    IF n = 0 THEN {<<>>}
    ELSE AttachmentLists(n - 1) \cup
         {Append(a, file) : a \in {b \in AttachmentLists(n - 1) : Len(b) = n - 1},
                            file \in Files(n)}

\* a message that tally users have starred
Starred(tally) == [NoMessage EXCEPT !.tally = tally,
                                    !.reactions = ReactionList(tally),
                                    !.valid = TRUE]

Messages ==
    UNION {{[Starred(t) EXCEPT !.reactions = x, !.ver = v, !.attachments = a,
                               !.reference = r[1], !.ref_reference = r[2]] :
               x \in ReactionLists(t), v \in 0..MaxEdits,
               a \in {<<>>, <<ImageFile>>}, r \in ReferenceChains} :
           t \in 0..MaxTally}
    \cup
    {[Starred(1) EXCEPT !.attachments = a] : a \in AttachmentLists(MaxAttachments)}

\* message.channel: a text channel or a thread, with the non-bot and bot
\* members its member list holds
NoChannel == [type |-> "text", humans |-> 0, bots |-> 0]
Humans == {0, 15, 20}
Bots == {0, 5}
SourceChannels ==
    {[type |-> ty, humans |-> h, bots |-> b] :
        ty \in {"text", "public_thread"}, h \in Humans, b \in Bots}
GuildMemberCount == 25

\* the outcome of reading a population: a number, or an AttributeError
NoPopulation == [raised |-> FALSE, n |-> 0]

\* lines 161-165: the population the synchronizer's cap is computed from.
\* Only message.channel is looked at: the non-bot members of its member list
\* when the members intent is on, else its member_count - which a thread
\* has and a text channel has not.
sync_population(intents_members, channel) ==
    IF intents_members
    THEN [raised |-> FALSE, n |-> channel.humans]
    ELSE IF channel.type = "public_thread"
         THEN [raised |-> FALSE, n |-> channel.humans + channel.bots]
         ELSE [raised |-> TRUE, n |-> 0]

\* line 59: the population the renderer's cap is computed from
render_population(channel, guild_member_count) ==
    IF channel.type = "public_thread"
    THEN [raised |-> FALSE, n |-> channel.humans + channel.bots]
    ELSE [raised |-> FALSE, n |-> guild_member_count]

\* message.embeds of a source message: at most MaxEmbeds embeds, each of the
\* "rich" type or not (link previews are "image", "video", "article", ...);
\* n is the embed's place in the source
MaxEmbeds == 10
SourceEmbeds ==
    {[k \in 1..n |-> [type |-> IF k \in other THEN "image" ELSE "rich", n |-> k]] :
        n \in 0..MaxEmbeds, other \in {{}, {1}, {2, 5}}}

Take(seq, n) == SubSeq(seq, 1, IF Len(seq) < n THEN Len(seq) ELSE n)
IsRich(x) == x.type = "rich"

\* (mutant) the list is not cut
embeds_list_uncut(embed, message_embeds) ==
    <<[type |-> "rich", n |-> 0, generated |-> embed]>>
        \o [k \in 1..Len(SelectSeq(message_embeds, IsRich)) |->
               [type |-> "rich", n |-> SelectSeq(message_embeds, IsRich)[k].n,
                generated |-> NoEmbed]]

\* lines 170 and 180:
\*   [embed, *tuple(filter(lambda x: x.type == "rich", message.embeds))][:10]
\* (the pipeline above follows the first embed of this list, the one
\* archive_image reads)
embeds_list(embed, message_embeds) ==
    Take(<<[type |-> "rich", n |-> 0, generated |-> embed]>>
            \o [k \in 1..Len(SelectSeq(message_embeds, IsRich)) |->
                   [type |-> "rich", n |-> SelectSeq(message_embeds, IsRich)[k].n,
                    generated |-> NoEmbed]],
         10)

NoInput == [fn |-> "", message_id |-> 0, message |-> NoMessage,
            channel |-> NoChannel, intents_members |-> FALSE,
            filesize_limit |-> 0]

\* the message command "Starboard Info" invoked on a message
InfoInputs ==
    {[NoInput EXCEPT !.fn = "Starboard Info", !.message_id = m, !.message = message] :
        m \in Msgs, message \in Messages}

\* the cap comparison of lines 159-169 for a newly created record
ThresholdInputs ==
    {[NoInput EXCEPT !.fn = "threshold", !.message_id = m,
                     !.message = Starred(t),
                     !.channel = c, !.intents_members = i] :
        m \in Msgs, t \in 0..MaxTally, c \in SourceChannels, i \in BOOLEAN}

\* the assembly of the embed list at lines 169-170 and 179-180
EmbedsInputs ==
    {[NoInput EXCEPT !.fn = "embeds", !.message_id = m,
                     !.message = [Starred(1) EXCEPT !.embeds = e,
                                                    !.reference = r]] :
        m \in Msgs, e \in SourceEmbeds, r \in References}

\* McDonaldsCog.__init__ (lines 9-13): nobody is a target, the lock is free
IdleLock == [holder |-> 0, waiters |-> <<>>]
InitMcDonaldsCog ==
    /\ targets = [member \in {} |-> 0]
    /\ cooldown = [member \in {} |-> 0]
    /\ mc_lock = IdleLock
    /\ on_message = <<>>
    /\ commercial_break = [pending |-> {}, invoked |-> 0,
                           started |-> [member \in Users |-> 0]]
    /\ now = 0

\* what os.urandom(4).hex() can return (server.py line 91)
StateValues == {"0a0a0a0a", "1b1b1b1b"}

\* server.py lines 40-45: no state is stored
InitServer(enabled) ==
    /\ states = [value \in {} |-> 0]
    /\ authenticate = [OAUTH_ENABLED |-> enabled,
                       requests |-> 0,
                       last |-> [code |-> "", state |-> "", status |-> 0],
                       issued |-> [value \in StateValues |-> 0],
                       accepted |-> [value \in StateValues |-> 0],
                       exchange |-> <<>>]

\* Events.__init__ on first load (events.py lines 86-92): one empty queue
InitEvents ==
    /\ bridge_queue = [objects |-> << <<>> >>, bot |-> 1, put |-> 0,
                       messages |-> 0]
    /\ bridge_recv = <<>>
    /\ on_bridge = [sent |-> <<>>, dropped |-> {}]

\* the other cogs and the server as they are constructed
OtherInit == InitMcDonaldsCog /\ InitServer(TRUE) /\ InitEvents

InitStarBoardCog ==
    /\ reactions = [m \in Msgs |-> {}]
    /\ edited = [m \in Msgs |-> 0]
    /\ exists \in [Msgs -> BOOLEAN]
    /\ in_starboard \in [Msgs -> BOOLEAN]
    /\ has_image \in [Msgs -> BOOLEAN]
    /\ member_count \in Populations
    /\ mirrors = {}
    /\ next_id = NumMsgs + 1
    /\ pending_delete = {}
    /\ store = {}
    /\ lock = None
    /\ waiters = <<>>
    /\ handler = [i \in Handlers |-> NewHandler]
    /\ archiver = [i \in Handlers |-> NoArchiver]
    /\ delivered = 0
    /\ input = NoInput
    /\ clock = 0
    /\ output = <<>>

Init == OtherInit /\ InitStarBoardCog

\* the star pipeline with nothing to do
AtRest ==
    /\ InitStarBoardCog
    /\ exists = [m \in Msgs |-> TRUE]
    /\ in_starboard = [m \in Msgs |-> FALSE]
    /\ has_image = [m \in Msgs |-> FALSE]
    /\ member_count = 0

\* ------------------------------------------------------------ environment
\* A user adds or removes a star reaction on a source message.
React(m, u) ==
    /\ exists[m]
    /\ reactions' = [reactions EXCEPT ![m] =
                        IF u \in @ THEN @ \ {u} ELSE @ \cup {u}]
    /\ UNCHANGED <<edited, exists, in_starboard, has_image, member_count,
                   mirrors, next_id, pending_delete, store, lock, waiters,
                   handler, archiver, delivered>>
    /\ UNCHANGED <<pure_vars, other_vars>>

\* (mutant) the lock is taken whether or not it is held
acquire_barging(i) == [lock |-> i, waiters |-> waiters, pc |-> "locked"]

\* asyncio.Lock.acquire() by task i: taken at once when the lock is free and
\* nobody waits, else the task is appended to the waiters
acquire(i) ==
    IF lock = None /\ waiters = <<>>
    THEN [lock |-> i, waiters |-> waiters, pc |-> "locked"]
    ELSE [lock |-> lock, waiters |-> Append(waiters, i), pc |-> "waiting"]

Done == [NewHandler EXCEPT !.pc = "done"]

\* The gateway delivers a raw reaction add/remove event; the client creates
\* one on_star_add task for it (listeners at lines 116-117), which runs to
\* its first suspension: the guild check (119-120) and lock.acquire() (121).
on_raw_reaction(m, u, kind, star, guild) ==
    /\ delivered < MaxEvents
    /\ delivered' = delivered + 1
    /\ LET i == delivered + 1
           payload == [NewHandler EXCEPT !.message_id = m, !.user_id = u,
                                         !.event_type = kind, !.star = star,
                                         !.guild_id = guild]
       IN  IF ~payload.guild_id
           THEN /\ handler' = [handler EXCEPT ![i] = Done]
                /\ UNCHANGED <<lock, waiters>>
           ELSE /\ handler' = [handler EXCEPT ![i] = [payload EXCEPT !.pc = acquire(i).pc]]
                /\ lock' = acquire(i).lock
                /\ waiters' = acquire(i).waiters
    /\ UNCHANGED <<env_vars, mirrors, next_id, pending_delete, store, archiver>>
    /\ UNCHANGED <<pure_vars, other_vars>>

\* The author edits the source message.
EditSource(m) ==
    /\ exists[m]
    /\ edited[m] < MaxEdits
    /\ edited' = [edited EXCEPT ![m] = @ + 1]
    /\ UNCHANGED <<reactions, exists, in_starboard, has_image, member_count,
                   mirrors, next_id, pending_delete, store, lock, waiters,
                   handler, archiver, delivered>>
    /\ UNCHANGED <<pure_vars, other_vars>>

\* A moderator deletes a mirror message out-of-band.
DeleteMirror(x) ==
    /\ x \in mirrors
    /\ mirrors' = mirrors \ {x}
    /\ UNCHANGED <<env_vars, next_id, pending_delete, store, lock, waiters,
                   handler, archiver, delivered>>
    /\ UNCHANGED <<pure_vars, other_vars>>

\* message.delete(delay=0.1): the delayed delete scheduled at line 147 runs.
DelayedDelete(m) ==
    /\ m \in pending_delete
    /\ pending_delete' = pending_delete \ {m}
    /\ exists' = [exists EXCEPT ![m] = FALSE]
    /\ reactions' = [reactions EXCEPT ![m] = {}]
    /\ UNCHANGED <<edited, in_starboard, has_image, member_count,
                   mirrors, next_id, store, lock, waiters, handler, archiver,
                   delivered>>
    /\ UNCHANGED <<pure_vars, other_vars>>

\* ------------------------------------------------------------ on_star_add
\* (mutant) an exception ends the task without the lock being released
Finish_leak(i, h, result) ==
    /\ handler' = [handler EXCEPT ![i] =
                       IF result = "raised" THEN Done
                       ELSE [h EXCEPT !.pc = "exit", !.result = result]]
    /\ UNCHANGED <<lock, waiters>>

\* A return, the fall-through at the end of the `async with` block, or an
\* uncaught exception: handler i, with locals h, reaches the block's exit.
Finish(i, h, result) ==
    /\ handler' = [handler EXCEPT ![i] = [h EXCEPT !.pc = "exit", !.result = result]]
    /\ UNCHANGED <<lock, waiters>>

\* (mutant) the handler awaits the task it created
detached_awaited(task) == task.pc \in {"none", "done"}

\* lines 173, 187 and 192: create_task only schedules archive_image; the task
\* it returns is dropped and never awaited, so the handler goes on whatever
\* the state of that task
detached(task) == TRUE

\* Lock.__aexit__ (line 121): the lock is released and passes to the first
\* waiter; the task is over.
Release(i) ==
    /\ handler[i].pc = "exit"
    /\ detached(archiver[i])
    /\ IF waiters = <<>>
       THEN /\ lock' = None
            /\ waiters' = waiters
            /\ handler' = [handler EXCEPT ![i] = Done]
       ELSE /\ lock' = Head(waiters)
            /\ waiters' = Tail(waiters)
            /\ handler' = [handler EXCEPT ![i] = Done, ![Head(waiters)].pc = "locked"]
    /\ UNCHANGED <<env_vars, mirrors, next_id, pending_delete, store, archiver, delivered>>
    /\ UNCHANGED <<pure_vars, other_vars>>

\* (mutant) every emoji is taken for the star
is_star_any(payload) == TRUE

\* line 122: str(payload.emoji) == "\N{white medium star}"
is_star(payload) == payload.star

\* lines 122-124: the emoji filter, then the source message fetch is issued
Filter(i) ==
    /\ handler[i].pc = "locked"
    /\ IF ~is_star(handler[i])
       THEN Finish(i, handler[i], "returned")
       ELSE /\ handler' = [handler EXCEPT ![i].pc = "fetch_message",
                                          ![i].store0 = store]
            /\ UNCHANGED <<lock, waiters>>
    /\ UNCHANGED <<env_vars, mirrors, next_id, pending_delete, store, archiver, delivered>>
    /\ UNCHANGED <<pure_vars, other_vars>>

\* (mutant) the removal is tried whatever the permissions
can_remove_always(manage_messages) == TRUE

\* line 126: message.channel.permissions_for(message.guild.me).manage_messages
can_remove(manage_messages) == manage_messages

\* lines 124-137: fetch_message returns (or raises NotFound); the self-star
\* test; the tally
FetchMessage(i) ==
    /\ handler[i].pc = "fetch_message"
    /\ LET m == handler[i].message_id
           message == Snapshot(m)
           star_count == StarCount(message)
       IN  IF ~exists[m]
           THEN Finish(i, handler[i], "raised")
           ELSE IF SelfStar(handler[i])
                THEN \E manage_messages \in BOOLEAN :
                        /\ handler' = [handler EXCEPT ![i].message = message,
                                          ![i].manage_messages = manage_messages,
                                          ![i].pc = IF can_remove(manage_messages)
                                                    THEN "remove_reaction" ELSE "reply"]
                        /\ UNCHANGED <<lock, waiters>>
                ELSE /\ handler' = [handler EXCEPT ![i].message = message,
                                       ![i].star_count = star_count,
                                       ![i].pc = IF star_count = 0
                                                 THEN "get" ELSE "get_or_create"]
                     /\ UNCHANGED <<lock, waiters>>
    /\ UNCHANGED <<env_vars, mirrors, next_id, pending_delete, store, archiver, delivered>>
    /\ UNCHANGED <<pure_vars, other_vars>>

\* line 127: message.remove_reaction(payload.emoji, message.author)
RemoveReaction(i) ==
    /\ handler[i].pc = "remove_reaction"
    /\ LET m == handler[i].message_id IN
       IF ~exists[m]
       THEN /\ Finish(i, handler[i], "raised")
            /\ UNCHANGED reactions
       ELSE /\ reactions' = [reactions EXCEPT ![m] = @ \ {Author}]
            /\ handler' = [handler EXCEPT ![i].pc = "reply"]
            /\ UNCHANGED <<lock, waiters>>
    /\ UNCHANGED <<edited, exists, in_starboard, has_image, member_count,
                   mirrors, next_id, pending_delete, store, archiver, delivered>>
    /\ UNCHANGED <<pure_vars, other_vars>>

\* lines 128-130: return await message.reply(...)
Reply(i) ==
    /\ handler[i].pc = "reply"
    /\ IF ~exists[handler[i].message_id]
       THEN Finish(i, handler[i], "raised")
       ELSE Finish(i, handler[i], "replied")
    /\ UNCHANGED <<env_vars, mirrors, next_id, pending_delete, store, archiver, delivered>>
    /\ UNCHANGED <<pure_vars, other_vars>>

\* lines 138-144, 152: StarBoardMessage.objects.get(id=payload.message_id)
Get(i) ==
    /\ handler[i].pc = "get"
    /\ LET rows == Rows(handler[i].message_id) IN
       IF rows = {}
       THEN Finish(i, handler[i], "returned")
       ELSE \E database \in rows, channel \in Channels :
               /\ handler' = [handler EXCEPT ![i].database = database,
                                 ![i].channel = channel,
                                 ![i].pc = IF channel # "none"
                                           THEN "fetch_by_id" ELSE "database_delete"]
               /\ UNCHANGED <<lock, waiters>>
    /\ UNCHANGED <<env_vars, mirrors, next_id, pending_delete, store, archiver, delivered>>
    /\ UNCHANGED <<pure_vars, other_vars>>

\* lines 145-149: channel.fetch_message(database.id) looks the SOURCE
\* message's id up in the starboard channel.  It is found only when the
\* source message itself lives in that channel; `message` is rebound to it.
FetchById(i) ==
    /\ handler[i].pc = "fetch_by_id"
    /\ LET id == handler[i].database.id IN
       IF in_starboard[id] /\ exists[id]
       THEN handler' = [handler EXCEPT ![i].message = Snapshot(id),
                                       ![i].pc = "delete_message"]
       ELSE handler' = [handler EXCEPT ![i].pc = "database_delete"]
    /\ UNCHANGED <<env_vars, mirrors, next_id, pending_delete, store, lock, waiters,
                   archiver, delivered>>
    /\ UNCHANGED <<pure_vars, other_vars>>

\* line 147: message.delete(delay=0.1, ...) schedules the delete and returns
DeleteMessage(i) ==
    /\ handler[i].pc = "delete_message"
    /\ pending_delete' = pending_delete \cup {handler[i].database.id}
    /\ handler' = [handler EXCEPT ![i].pc = "database_delete"]
    /\ UNCHANGED <<env_vars, mirrors, next_id, store, lock, waiters, archiver, delivered>>
    /\ UNCHANGED <<pure_vars, other_vars>>

\* lines 150-153: database.delete(); control then falls through to line 155
DatabaseDelete(i) ==
    /\ handler[i].pc = "database_delete"
    /\ store' = Delete(handler[i].database.id)
    /\ handler' = [handler EXCEPT ![i].pc = "get_or_create"]
    /\ UNCHANGED <<env_vars, mirrors, next_id, pending_delete, lock, waiters,
                   archiver, delivered>>
    /\ UNCHANGED <<pure_vars, other_vars>>

\* (mutant) a row is inserted whether or not one exists
get_or_create_insert(id) ==
    LET row == [id |-> id, channel |-> id, starboard_message |-> None]
    IN  [rows |-> {row}, created |-> TRUE, store |-> store \cup {row}]

\* StarBoardMessage.objects.get_or_create({"channel": ...}, id=...): the row
\* with that id if there is one, else a new row with starboard_message null
get_or_create(id) ==
    IF Rows(id) # {}
    THEN [rows |-> Rows(id), created |-> FALSE, store |-> store]
    ELSE LET row == [id |-> id, channel |-> id, starboard_message |-> None]
         IN  [rows |-> {row}, created |-> TRUE, store |-> store \cup {row}]

\* lines 155-168 and 174-181: get_or_create, then the branch on `created`.
\* The cap is compared only when the row was just created.
GetOrCreate(i) ==
    /\ handler[i].pc = "get_or_create"
    /\ LET database == get_or_create(handler[i].message_id)
           created == database.created
           star_count == handler[i].star_count
       IN  \E entry \in database.rows :
            LET h == [handler[i] EXCEPT !.entry = entry, !.created = created]
            IN  /\ store' = database.store
                /\ IF compares_cap(created)
                   THEN IF Qualifies(star_count, member_count)
                        THEN \E channel \in Channels :
                               LET c == [h EXCEPT !.channel = channel] IN
                               IF channel = "ok"
                               THEN /\ handler' = [handler EXCEPT ![i] =
                                                      [c EXCEPT !.pc = "send"]]
                                    /\ UNCHANGED <<lock, waiters>>
                               ELSE Finish(i, c, "returned")
                        ELSE /\ handler' = [handler EXCEPT ![i] =
                                               [h EXCEPT !.pc = "entry_delete"]]
                             /\ UNCHANGED <<lock, waiters>>
                   ELSE \E channel \in Channels :
                          LET c == [h EXCEPT !.channel = channel] IN
                          IF channel = "ok" /\ entry.starboard_message # None
                          THEN /\ handler' = [handler EXCEPT ![i] =
                                                 [c EXCEPT !.pc = "fetch_mirror"]]
                               /\ UNCHANGED <<lock, waiters>>
                          ELSE Finish(i, c, "returned")
    /\ UNCHANGED <<env_vars, mirrors, next_id, pending_delete, archiver, delivered>>
    /\ UNCHANGED <<pure_vars, other_vars>>

\* lines 169-171 (new record) and 185 (mirror not found): render the embed
\* from `message` and channel.send it
Send(i) ==
    /\ handler[i].pc = "send"
    /\ next_id \in MirrorIds
    /\ LET embed == generate_starboard_embed(handler[i].message_id, handler[i].message)
           msg == [id |-> next_id, embed |-> embed]
       IN  /\ mirrors' = mirrors \cup {msg}
           /\ handler' = [handler EXCEPT ![i].msg = msg, ![i].pc = "entry_update"]
    /\ next_id' = next_id + 1
    /\ UNCHANGED <<env_vars, pending_delete, store, lock, waiters, archiver, delivered>>
    /\ UNCHANGED <<pure_vars, other_vars>>

\* (mutant) no task is created
create_task_dropped(msg, rendered) == NoArchiver

\* bot.loop.create_task(self.archive_image(msg)), lines 173, 187 and 192:
\* archive_image is handed the Message object the handler holds
create_task(msg, rendered) ==
    [NoArchiver EXCEPT !.pc = "start", !.msg = msg, !.rendered = rendered]

\* lines 172-173 and 186-187: entry.update(starboard_message=msg.id), then
\* create_task(archive_image(msg)); the handler falls off the end
EntryUpdate(i) ==
    /\ handler[i].pc = "entry_update"
    /\ store' = Update(handler[i].entry.id, handler[i].msg.id)
    /\ archiver' = [archiver EXCEPT ![i] = create_task(handler[i].msg, handler[i].msg.embed)]
    /\ Finish(i, handler[i], "posted")
    /\ UNCHANGED <<env_vars, mirrors, next_id, pending_delete, delivered>>
    /\ UNCHANGED <<pure_vars, other_vars>>

\* lines 175-176: entry.delete(); return
EntryDelete(i) ==
    /\ handler[i].pc = "entry_delete"
    /\ store' = Delete(handler[i].entry.id)
    /\ Finish(i, handler[i], "returned")
    /\ UNCHANGED <<env_vars, mirrors, next_id, pending_delete, archiver, delivered>>
    /\ UNCHANGED <<pure_vars, other_vars>>

\* lines 182-189: channel.fetch_message(entry.starboard_message)
\*   found -> line 191; NotFound -> line 185; other HTTPException -> pass
FetchMirror(i) ==
    /\ handler[i].pc = "fetch_mirror"
    /\ LET found == fetch_message(handler[i].entry.starboard_message) IN
       \/ /\ found = {}
          /\ handler' = [handler EXCEPT ![i].pc = "send"]
          /\ UNCHANGED <<lock, waiters>>
       \/ \E msg \in found :
            /\ handler' = [handler EXCEPT ![i].msg = msg, ![i].pc = "edit"]
            /\ UNCHANGED <<lock, waiters>>
       \/ Finish(i, handler[i], "passed")
    /\ UNCHANGED <<env_vars, mirrors, next_id, pending_delete, store, archiver, delivered>>
    /\ UNCHANGED <<pure_vars, other_vars>>

\* lines 191-192: msg.edit(embeds=embeds) replaces the mirror's embeds; the
\* call's result is discarded, so `msg` still holds the embeds fetched at
\* line 183 when it is handed to archive_image.  NotFound here is not caught.
Edit(i) ==
    /\ handler[i].pc = "edit"
    /\ LET msg == handler[i].msg
           embed == generate_starboard_embed(handler[i].message_id, handler[i].message)
       IN  IF fetch_message(msg.id) = {}
           THEN /\ Finish(i, handler[i], "raised")
                /\ UNCHANGED <<mirrors, archiver>>
           ELSE /\ mirrors' = {IF x.id = msg.id THEN [x EXCEPT !.embed = embed] ELSE x :
                                  x \in mirrors}
                /\ archiver' = [archiver EXCEPT ![i] = create_task(msg, embed)]
                /\ Finish(i, handler[i], "edited")
    /\ UNCHANGED <<env_vars, next_id, pending_delete, store, delivered>>
    /\ UNCHANGED <<pure_vars, other_vars>>

\* ------------------------------------------------------------ archive_image
\* guild.filesize_limit as the library reports it for the boost tiers
MiB == 1024 * 1024
FilesizeLimits == {8 * MiB, 50 * MiB}

\* payload sizes around the boundary of the smallest tier's effective limit
Lengths == {25 * MiB, 25 * MiB + 1}

\* what session.get may return: a 200 of some size, or an error status
Responses ==
    {[status_code |-> 200, length |-> n] : n \in Lengths}
        \cup {[status_code |-> 404, length |-> 25 * MiB]}

\* (mutant) the smallest tier's limit is multiplied by four
EffectiveLimit_quadrupled(filesize_limit) ==
    IF filesize_limit = 8 * MiB THEN 4 * filesize_limit ELSE filesize_limit

\* lines 40-43: FS_LIMIT, with the smallest tier's 8 MiB taken as 25 MiB
EffectiveLimit(filesize_limit) ==
    IF filesize_limit = 8 * MiB THEN 25 * MiB ELSE filesize_limit

\* line 44: r.status_code == 200 and len(r.content) < FS_LIMIT
Fits(r, FS_LIMIT) == r.status_code = 200 /\ r.length < FS_LIMIT

\* The task first runs once the handler that created it has yielded the event
\* loop, which it does not do between create_task and leaving the lock.
\* lines 28-34: no image -> nothing to do; else the image is fetched from
\* its url. When session.get returns, FS_LIMIT is read (40-43); when it
\* raises httpx.HTTPError the handler at 34-35 reads image.proxy_url.
ArchiveGet(i) ==
    /\ archiver[i].pc = "start"
    /\ handler[i].pc = "done"
    /\ IF archiver[i].msg.embed.image = "none"
       THEN archiver' = [archiver EXCEPT ![i] = ArchiverDone]
       ELSE \/ \E proxy_url \in BOOLEAN :
                 archiver' = [archiver EXCEPT ![i].pc = "failed",
                                              ![i].proxy_url = proxy_url]
            \/ \E r \in Responses, filesize_limit \in FilesizeLimits :
                 archiver' = [archiver EXCEPT ![i].pc = "got", ![i].r = r,
                                 ![i].FS_LIMIT = EffectiveLimit(filesize_limit)]
    /\ UNCHANGED <<env_vars, mirrors, next_id, pending_delete, store, lock, waiters,
                   handler, delivered>>
    /\ UNCHANGED <<pure_vars, other_vars>>

\* (mutant) the second fetch is made whether or not there is a proxy url
retries_always(proxy_url) == TRUE

\* line 35: if image.proxy_url
retries(proxy_url) == proxy_url

\* lines 35-38: with a proxy url the image is fetched once more, from it;
\* an HTTPError of this second fetch is not caught and ends the task.
\* Without a proxy url the task returns.
ArchiveRetry(i) ==
    /\ archiver[i].pc = "failed"
    /\ IF retries(archiver[i].proxy_url)
       THEN \/ archiver' = [archiver EXCEPT ![i] = ArchiverDone]
            \/ \E r \in Responses, filesize_limit \in FilesizeLimits :
                 archiver' = [archiver EXCEPT ![i].pc = "got", ![i].r = r,
                                 ![i].proxy_url = FALSE,
                                 ![i].FS_LIMIT = EffectiveLimit(filesize_limit)]
       ELSE archiver' = [archiver EXCEPT ![i] = ArchiverDone]
    /\ UNCHANGED <<env_vars, mirrors, next_id, pending_delete, store, lock, waiters,
                   handler, delivered>>
    /\ UNCHANGED <<pure_vars, other_vars>>

\* line 44: the payload is re-attached only if the test passes
ArchiveCheck(i) ==
    /\ archiver[i].pc = "got"
    /\ archiver' = [archiver EXCEPT ![i] =
                       IF Fits(archiver[i].r, archiver[i].FS_LIMIT)
                       THEN [@ EXCEPT !.pc = "edit", !.r = NoResponse, !.FS_LIMIT = 0]
                       ELSE ArchiverDone]
    /\ UNCHANGED <<env_vars, mirrors, next_id, pending_delete, store, lock, waiters,
                   handler, delivered>>
    /\ UNCHANGED <<pure_vars, other_vars>>

\* lines 45-50: starboard_message.edit(embeds=[embed with the local image,
\* *starboard_message.embeds[1:]], file=...) with the embeds of the Message
\* object the task was given
ArchiveEdit(i) ==
    /\ archiver[i].pc = "edit"
    /\ LET msg == archiver[i].msg
           embed == [msg.embed EXCEPT !.image = "local"]
       IN  mirrors' = {IF x.id = msg.id THEN [x EXCEPT !.embed = embed] ELSE x :
                          x \in mirrors}
    /\ archiver' = [archiver EXCEPT ![i] = ArchiverDone]
    /\ UNCHANGED <<env_vars, next_id, pending_delete, store, lock, waiters,
                   handler, delivered>>
    /\ UNCHANGED <<pure_vars, other_vars>>

\* ------------------------------------------------------------ specification
on_star_add(i) ==
    \/ Filter(i) \/ FetchMessage(i) \/ Release(i)
    \/ RemoveReaction(i) \/ Reply(i)
    \/ Get(i) \/ FetchById(i) \/ DeleteMessage(i) \/ DatabaseDelete(i)
    \/ GetOrCreate(i) \/ Send(i) \/ EntryUpdate(i) \/ EntryDelete(i)
    \/ FetchMirror(i) \/ Edit(i)

archive_image(i) ==
    ArchiveGet(i) \/ ArchiveRetry(i) \/ ArchiveCheck(i) \/ ArchiveEdit(i)

Environment ==
    \/ \E m \in Msgs, u \in Users : React(m, u)
    \/ \E m \in Msgs, u \in Users, kind \in {"REACTION_ADD", "REACTION_REMOVE"},
          star \in BOOLEAN, guild \in BOOLEAN :
            on_raw_reaction(m, u, kind, star, guild)
    \/ \E m \in Msgs : EditSource(m)
    \/ \E x \in mirrors : DeleteMirror(x)
    \/ \E m \in Msgs : DelayedDelete(m)

Next ==
    \/ Environment
    \/ \E i \in Handlers : on_star_add(i)
    \/ \E i \in Handlers : archive_image(i)

Spec == Init /\ [][Next]_vars

\* The event loop runs every task that is ready: a handler that holds the
\* lock is waiting only for a transport or database call, which returns or
\* raises, and then takes its next step. Progress is checked for source
\* messages with an image in a guild whose cap is above one star.
InitLive ==
    /\ Init
    /\ member_count = 20
    /\ \A m \in Msgs : has_image[m]

FairSpec ==
    InitLive /\ [][Next]_vars /\ \A i \in Handlers : WF_vars(on_star_add(i))

\* ------------------------------------------------------------ SpecPure
\* The state of the pipeline a call is made in: a mirror may be posted and
\* a handler may hold the lock.
PostedRow    == [id |-> 1, channel |-> 1, starboard_message |-> NumMsgs + 1]
PostedMirror == [id |-> NumMsgs + 1,
                 embed |-> generate_starboard_embed(1,
                              Starred(1))]
BusyHandler  == [NewHandler EXCEPT !.pc = "locked", !.message_id = 1, !.user_id = 2,
                                   !.event_type = "REACTION_ADD", !.star = TRUE,
                                   !.guild_id = TRUE]

\* guild.filesize_limit for the boost tiers 0-1, 2 and 3
ReportedLimits == {8 * MiB, 50 * MiB, 100 * MiB}

\* the computation of FS_LIMIT at lines 40-43 for a reported limit
LimitInputs ==
    {[NoInput EXCEPT !.fn = "FS_LIMIT", !.filesize_limit = n] : n \in ReportedLimits}

Inputs == InfoInputs \cup ThresholdInputs \cup EmbedsInputs \cup LimitInputs

InitPure ==
    /\ clock = 0
    /\ OtherInit
    /\ reactions = [m \in Msgs |-> {}]
    /\ edited = [m \in Msgs |-> 0]
    /\ exists = [m \in Msgs |-> TRUE]
    /\ in_starboard = [m \in Msgs |-> FALSE]
    /\ has_image = [m \in Msgs |-> FALSE]
    /\ member_count = 0
    /\ pending_delete = {}
    /\ waiters = <<>>
    /\ archiver = [i \in Handlers |-> NoArchiver]
    /\ \E posted \in BOOLEAN :
         /\ store = IF posted THEN {PostedRow} ELSE {}
         /\ mirrors = IF posted THEN {PostedMirror} ELSE {}
         /\ next_id = IF posted THEN NumMsgs + 2 ELSE NumMsgs + 1
    /\ \E busy \in BOOLEAN :
         /\ lock = IF busy THEN 1 ELSE None
         /\ handler = [i \in Handlers |-> IF busy /\ i = 1 THEN BusyHandler ELSE NewHandler]
         /\ delivered = IF busy THEN 1 ELSE 0
    /\ input \in Inputs
    /\ output = <<>>

\* time passes
Tick ==
    /\ clock < MaxClock
    /\ clock' = clock + 1
    /\ UNCHANGED <<env_vars, mirrors, next_id, pending_delete, store, lock, waiters,
                   handler, archiver, delivered, input, output>>
    /\ UNCHANGED other_vars

\* (mutant) the command tracks the message it is asked about
get_starboard_info_tracked ==
    /\ input.fn = "Starboard Info"
    /\ Len(output) < MaxCalls
    /\ output' = Append(output,
                    [embed |-> generate_starboard_embed(input.message_id, input.message),
                     at |-> clock])
    /\ store' = get_or_create(input.message_id).store
    /\ UNCHANGED <<env_vars, mirrors, next_id, pending_delete, lock, waiters,
                   handler, archiver, delivered, input, clock>>
    /\ UNCHANGED other_vars

\* lines 194-197: ctx.respond(embed=await self.generate_starboard_embed(message))
get_starboard_info ==
    /\ input.fn = "Starboard Info"
    /\ Len(output) < MaxCalls
    /\ output' = Append(output,
                    [embed |-> generate_starboard_embed(input.message_id, input.message),
                     at |-> clock])
    /\ UNCHANGED <<env_vars, mirrors, next_id, pending_delete, store, lock, waiters,
                   handler, archiver, delivered, input, clock>>
    /\ UNCHANGED other_vars

\* lines 161-169 for a record just created: the population, the comparison
\* with the cap and, when the message qualifies, the population the renderer
\* called at line 169 computes its own cap from
Threshold ==
    /\ input.fn = "threshold"
    /\ output = <<>>
    /\ LET star_count == StarCount(input.message)
           population == sync_population(input.intents_members, input.channel)
           qualifies == ~population.raised /\ Qualifies(star_count, population.n)
       IN  output' = <<[population |-> population,
                        qualifies |-> qualifies,
                        rendered_for |-> IF qualifies
                                         THEN render_population(input.channel, GuildMemberCount)
                                         ELSE NoPopulation]>>
    /\ UNCHANGED <<env_vars, mirrors, next_id, pending_delete, store, lock, waiters,
                   handler, archiver, delivered, input, clock>>
    /\ UNCHANGED other_vars

\* lines 169-170 and 179-180: the embed is rendered and the list assembled
Assemble ==
    /\ input.fn = "embeds"
    /\ output = <<>>
    /\ LET embed == generate_starboard_embed(input.message_id, input.message)
       IN  output' = <<[embed |-> embed,
                        embeds |-> embeds_list(embed, input.message.embeds)]>>
    /\ UNCHANGED <<env_vars, mirrors, next_id, pending_delete, store, lock, waiters,
                   handler, archiver, delivered, input, clock>>
    /\ UNCHANGED other_vars

\* lines 40-43: FS_LIMIT for the guild's reported limit
ReadLimit ==
    /\ input.fn = "FS_LIMIT"
    /\ output = <<>>
    /\ output' = <<[FS_LIMIT |-> EffectiveLimit(input.filesize_limit)]>>
    /\ UNCHANGED <<env_vars, mirrors, next_id, pending_delete, store, lock, waiters,
                   handler, archiver, delivered, input, clock>>
    /\ UNCHANGED other_vars

NextPure ==
    \/ Tick
    \/ get_starboard_info
    \/ Threshold
    \/ Assemble
    \/ ReadLimit

SpecPure == InitPure /\ [][NextPure]_vars

\* ================================================================ McDonaldsCog
\* src/cogs/mcdonalds.py. A member targeted by a commercial break has every
\* message deleted until they say "MCDONALDS!".
MaxMessages == 2    \* messages sent by members
MaxBreaks == 2      \* invocations of the command

\* the instants at which something happens, in seconds
Instants == {0, 20, 400}

\* line 24: a prompt is sent again when the last one is more than 10 s old
PromptGap == 10
\* line 43: the next break is due 300 s after the last one was ended
BreakCooldown == 300

\* what members write, and str.upper() of it (line 22)
Contents == {"MCDONALDS!", "McDonalds!", "hello"}
upper(content) ==
    CASE content = "MCDONALDS!" -> "MCDONALDS!"
      [] content = "McDonalds!" -> "MCDONALDS!"
      [] content = "hello" -> "HELLO"

\* dict[key] = value
SetItem(dict, key, value) ==
    [k \in DOMAIN dict \cup {key} |-> IF k = key THEN value ELSE dict[k]]

\* an on_message task: its message, where it is, whether the message was
\* deleted, how it ended, and (history) the number of breaks started for
\* the author when the task thanked them
NoTask == [pc |-> "", author |-> 0, content |-> "", created_at |-> 0,
           deleted |-> FALSE, result |-> "", break |-> 0]

mc_env == <<star_vars, pure_vars, auth_vars, bridge_vars>>

\* lines 16-20: a member sends a message; the listener returns at once
\* without the manage_messages permission, else it enters the lock or
\* queues for it
Message(author, content) ==
    /\ Len(on_message) < MaxMessages
    /\ \E manage_messages \in BOOLEAN :
         LET k == Len(on_message) + 1
             task == [NoTask EXCEPT !.author = author, !.content = content,
                                    !.created_at = now]
         IN  IF ~manage_messages
             THEN /\ on_message' = Append(on_message,
                                      [task EXCEPT !.pc = "done", !.result = "ignored"])
                  /\ UNCHANGED mc_lock
             ELSE IF mc_lock.holder = 0 /\ mc_lock.waiters = <<>>
             THEN /\ on_message' = Append(on_message, [task EXCEPT !.pc = "locked"])
                  /\ mc_lock' = [mc_lock EXCEPT !.holder = k]
             ELSE /\ on_message' = Append(on_message, [task EXCEPT !.pc = "waiting"])
                  /\ mc_lock' = [mc_lock EXCEPT !.waiters = Append(@, k)]
    /\ UNCHANGED <<targets, cooldown, commercial_break, now, mc_env>>

\* the end of `async with self.lock` for task k, which ends as `task`: the
\* lock passes to the first waiter
Leave(k, task) ==
    LET ended == [on_message EXCEPT ![k] = [task EXCEPT !.pc = "done"]]
    IN  IF mc_lock.waiters = <<>>
        THEN /\ mc_lock' = IdleLock
             /\ on_message' = ended
        ELSE /\ mc_lock' = [holder |-> Head(mc_lock.waiters),
                            waiters |-> Tail(mc_lock.waiters)]
             /\ on_message' = [ended EXCEPT ![Head(mc_lock.waiters)].pc = "locked"]

\* lines 21-23 and 31: is the author a target, and did they say the word
InTargets(k) ==
    /\ k \in 1..Len(on_message)
    /\ on_message[k].pc = "locked"
    /\ LET task == on_message[k] IN
       IF task.author \in DOMAIN targets
       THEN /\ on_message' = [on_message EXCEPT ![k].pc =
                                 IF upper(task.content) # "MCDONALDS!"
                                 THEN "delete" ELSE "reply"]
            /\ UNCHANGED mc_lock
       ELSE Leave(k, [task EXCEPT !.result = "untargeted"])
    /\ UNCHANGED <<targets, cooldown, commercial_break, now, mc_env>>

\* lines 23-24: message.delete() raises, or the message is gone and the age
\* of the last prompt is looked at
MessageDelete(k) ==
    /\ k \in 1..Len(on_message)
    /\ on_message[k].pc = "delete"
    /\ LET task == on_message[k] IN
       \/ Leave(k, [task EXCEPT !.result = "raised"])
       \/ IF task.created_at - targets[task.author] > PromptGap
          THEN /\ on_message' = [on_message EXCEPT ![k].pc = "send",
                                                   ![k].deleted = TRUE]
               /\ UNCHANGED mc_lock
          ELSE Leave(k, [task EXCEPT !.deleted = TRUE, !.result = "deleted"])
    /\ UNCHANGED <<targets, cooldown, commercial_break, now, mc_env>>

\* lines 25-29: the prompt is sent again and its time recorded
PromptSend(k) ==
    /\ k \in 1..Len(on_message)
    /\ on_message[k].pc = "send"
    /\ LET task == on_message[k] IN
       \/ /\ Leave(k, [task EXCEPT !.result = "raised"])
          /\ UNCHANGED targets
       \/ /\ targets' = SetItem(targets, task.author, task.created_at)
          /\ Leave(k, [task EXCEPT !.result = "prompted"])
    /\ UNCHANGED <<cooldown, commercial_break, now, mc_env>>

\* lines 31-36: "Thank you. You may now resume your activity.", then the
\* cooldown is recorded; self.targets is left as it is
MessageReply(k) ==
    /\ k \in 1..Len(on_message)
    /\ on_message[k].pc = "reply"
    /\ LET task == on_message[k] IN
       \/ /\ Leave(k, [task EXCEPT !.result = "raised"])
          /\ UNCHANGED cooldown
       \/ /\ cooldown' = SetItem(cooldown, task.author, task.created_at)
          /\ Leave(k, [task EXCEPT !.result = "thanked",
                           !.break = commercial_break.started[task.author]])
    /\ UNCHANGED <<targets, commercial_break, now, mc_env>>

\* line 41: the command is invoked on a member and deferred
Defer(member) ==
    /\ commercial_break.invoked < MaxBreaks
    /\ member \notin commercial_break.pending
    /\ commercial_break' = [commercial_break EXCEPT !.pending = @ \cup {member},
                                                    !.invoked = @ + 1]
    /\ UNCHANGED <<targets, cooldown, mc_lock, on_message, now, mc_env>>

\* lines 42-52: already a target -> refused; ended less than 300 s ago ->
\* refused; else the member becomes a target
CommercialBreak(member) ==
    /\ member \in commercial_break.pending
    /\ IF member \in DOMAIN targets
       THEN /\ commercial_break' = [commercial_break EXCEPT !.pending = @ \ {member}]
            /\ UNCHANGED targets
       ELSE IF member \in DOMAIN cooldown /\ cooldown[member] + BreakCooldown > now
       THEN /\ commercial_break' = [commercial_break EXCEPT !.pending = @ \ {member}]
            /\ UNCHANGED targets
       ELSE /\ targets' = SetItem(targets, member, now)
            /\ commercial_break' = [commercial_break EXCEPT !.pending = @ \ {member},
                                                            !.started[member] = @ + 1]
    /\ UNCHANGED <<cooldown, mc_lock, on_message, now, mc_env>>

\* time passes
Advance ==
    /\ \E t \in Instants :
         /\ t > now
         /\ \A u \in Instants : u > now => t <= u
         /\ now' = t
    /\ UNCHANGED <<targets, cooldown, mc_lock, on_message, commercial_break, mc_env>>

NextMcDonalds ==
    \/ \E author \in Users, content \in Contents : Message(author, content)
    \/ \E k \in 1..MaxMessages :
          InTargets(k) \/ MessageDelete(k) \/ PromptSend(k) \/ MessageReply(k)
    \/ \E member \in Users : Defer(member) \/ CommercialBreak(member)
    \/ Advance

\* the star pipeline and the server at rest
InitMcDonalds == OtherInit /\ AtRest

SpecMcDonalds == InitMcDonalds /\ [][NextMcDonalds]_vars

\* ================================================================ /auth
\* src/web/server.py, authenticate (lines 81-232): a request without a
\* stored state is given a fresh one; a request that brings a stored state
\* and a code exchanges the code.
MaxRequests == 4    \* requests to /auth

\* line 97: on a collision, states older than this many seconds are removed
StateLifetime == 300

\* the query parameters a browser can send; "ffffffff" is never issued
Codes == {"", "code"}
QueryStates == {""} \cup StateValues \cup {"ffffffff"}

\* the statuses Discord answers the token exchange and /users/@me with
TokenStatuses == {200, 400}
UserStatuses == {200, 401}

\* lines 96-99: the states that are not older than five minutes
Cleanup(dict) ==
    [value \in {v \in DOMAIN dict : ~(now - dict[v] > StateLifetime)} |-> dict[value]]

\* (mutant) the state is looked up and left in the container
pop_kept(dict, key) == dict

\* dict.pop(key) at line 128
pop(dict, key) == [k \in DOMAIN dict \ {key} |-> dict[k]]

\* lines 91-126: a state is generated, again after a cleanup if it is
\* stored already; 503 if that one is stored too, else it is stored and
\* the browser redirected to Discord
IssueState(request, code, state) ==
    \E first \in StateValues, second \in StateValues :
        LET collided == first \in DOMAIN states
            cleaned == IF collided THEN Cleanup(states) ELSE states
            value == IF collided THEN second ELSE first
        IN  IF value \in DOMAIN cleaned
            THEN /\ states' = cleaned
                 /\ authenticate' = [request EXCEPT !.last =
                        [code |-> code, state |-> state, status |-> 503]]
            ELSE /\ states' = SetItem(cleaned, value, now)
                 /\ authenticate' = [request EXCEPT
                        !.last = [code |-> code, state |-> state, status |-> 307],
                        !.issued[value] = @ + 1]

\* lines 128-162: the state is removed, then the code is exchanged and the
\* user read (both calls are synchronous); the task goes on to the
\* database at line 167 or raises the status Discord answered with
ExchangeCode(request, code, state) ==
    \E token \in TokenStatuses, user \in UserStatuses :
        LET status == IF token # 200 THEN token ELSE IF user # 200 THEN user ELSE 0
        IN  /\ states' = pop(states, state)
            /\ authenticate' = [request EXCEPT
                    !.last = [code |-> code, state |-> state, status |-> status],
                    !.accepted[state] = @ + 1,
                    !.exchange = Append(@, [state |-> state,
                                            pc |-> IF status = 0 THEN "get_or_none"
                                                   ELSE "raised"])]

\* lines 81-128: GET /auth?code=..&state=..
Authenticate(code, state) ==
    /\ authenticate.requests < MaxRequests
    /\ LET request == [authenticate EXCEPT !.requests = @ + 1] IN
       IF ~authenticate.OAUTH_ENABLED
       THEN /\ authenticate' = [request EXCEPT !.last =
                   [code |-> code, state |-> state, status |-> 501]]
            /\ UNCHANGED states
       ELSE IF ~(code # "" /\ state # "") \/ state \notin DOMAIN states
       THEN IssueState(request, code, state)
       ELSE ExchangeCode(request, code, state)
    /\ UNCHANGED <<star_vars, pure_vars, mc_vars, bridge_vars>>

\* lines 167-232: the access token is stored and the cookie set, or the
\* lookup of the client address raises
SetCookie(k) ==
    /\ k \in 1..Len(authenticate.exchange)
    /\ authenticate.exchange[k].pc = "get_or_none"
    /\ \E pc \in {"done", "raised"} :
         authenticate' = [authenticate EXCEPT !.exchange[k].pc = pc]
    /\ UNCHANGED <<states, star_vars, pure_vars, mc_vars, bridge_vars>>

NextAuth ==
    \/ \E code \in Codes, state \in QueryStates : Authenticate(code, state)
    \/ \E k \in 1..MaxRequests : SetCookie(k)
    \/ Advance

InitAuth ==
    /\ AtRest
    /\ InitMcDonaldsCog
    /\ InitEvents
    /\ \E enabled \in BOOLEAN : InitServer(enabled)

SpecAuth == InitAuth /\ [][NextAuth]_vars

\* ================================================================ bridge
\* src/cogs/events.py puts a payload on bot.bridge_queue for each message of
\* the bridged channel; src/web/server.py, bridge_recv (lines 312-334),
\* takes payloads off the queue and sends them down a websocket.
MaxPayloads == 2    \* messages in the bridged channel
MaxClients == 2     \* websocket connections
MaxQueues == 2      \* queue objects (the cog is loaded MaxQueues times)

\* a connection: the queue object it read at line 319, the payload it
\* holds, and whether the peer is still there
NoClient == [pc |-> "", queue |-> 0, data |-> 0, open |-> TRUE]

bridge_env == <<star_vars, pure_vars, mc_vars, auth_vars>>

\* (mutant) the head of the queue is read and left on the queue
get_nowait_peek(queue) == queue

\* what asyncio.Queue.get_nowait() leaves on the queue (line 324)
get_nowait(queue) == Tail(queue)

\* events.py lines 86-92: the cog is loaded again; the bot gets a new queue
\* object unless the one it has holds payloads
EventsInit ==
    /\ Len(bridge_queue.objects) < MaxQueues
    /\ bridge_queue.objects[bridge_queue.bot] = <<>>
    /\ bridge_queue' = [bridge_queue EXCEPT !.objects = Append(@, <<>>),
                                            !.bot = Len(bridge_queue.objects) + 1]
    /\ UNCHANGED <<bridge_recv, on_bridge, bridge_env>>

\* events.py lines 368-370: a message in the bridged channel is put on the
\* queue unless the bot wrote it or it has neither text nor attachments
OnMessage(by_bot, empty) ==
    /\ bridge_queue.messages < MaxPayloads
    /\ IF ~by_bot /\ ~empty
       THEN bridge_queue' = [bridge_queue EXCEPT
                !.messages = @ + 1,
                !.put = @ + 1,
                !.objects[bridge_queue.bot] = Append(@, bridge_queue.put + 1)]
       ELSE bridge_queue' = [bridge_queue EXCEPT !.messages = @ + 1]
    /\ UNCHANGED <<bridge_recv, on_bridge, bridge_env>>

\* server.py lines 313-321: a client connects; with the right secret the
\* handler reads bot.bridge_queue and awaits the accept
BridgeRecv(secret) ==
    /\ Len(bridge_recv) < MaxClients
    /\ bridge_recv' = Append(bridge_recv,
            IF secret
            THEN [NoClient EXCEPT !.pc = "accept", !.queue = bridge_queue.bot]
            ELSE [NoClient EXCEPT !.pc = "refused"])
    /\ UNCHANGED <<bridge_queue, on_bridge, bridge_env>>

\* line 321: the connection is accepted
Accept(c) ==
    /\ c \in 1..Len(bridge_recv)
    /\ bridge_recv[c].pc = "accept"
    /\ bridge_recv' = [bridge_recv EXCEPT ![c].pc = "get"]
    /\ UNCHANGED <<bridge_queue, on_bridge, bridge_env>>

\* lines 323-327: the head of the queue is taken, or the handler sleeps
GetNowait(c) ==
    /\ c \in 1..Len(bridge_recv)
    /\ bridge_recv[c].pc = "get"
    /\ LET queue == bridge_queue.objects[bridge_recv[c].queue] IN
       IF queue = <<>>
       THEN /\ bridge_recv' = [bridge_recv EXCEPT ![c].pc = "sleep"]
            /\ UNCHANGED bridge_queue
       ELSE /\ bridge_recv' = [bridge_recv EXCEPT ![c].pc = "send",
                                                  ![c].data = Head(queue)]
            /\ bridge_queue' = [bridge_queue EXCEPT
                    !.objects[bridge_recv[c].queue] = get_nowait(queue)]
    /\ UNCHANGED <<on_bridge, bridge_env>>

\* lines 326-327: half a second later
Sleep(c) ==
    /\ c \in 1..Len(bridge_recv)
    /\ bridge_recv[c].pc = "sleep"
    /\ bridge_recv' = [bridge_recv EXCEPT ![c].pc = "get"]
    /\ UNCHANGED <<bridge_queue, on_bridge, bridge_env>>

\* lines 329-334: the payload is sent and the loop goes on, or the peer is
\* gone and the send raises: WebSocketDisconnect ends the loop, any other
\* exception ends the handler; the payload is dropped either way
SendJson(c) ==
    /\ c \in 1..Len(bridge_recv)
    /\ bridge_recv[c].pc = "send"
    /\ IF bridge_recv[c].open
       THEN /\ on_bridge' = [on_bridge EXCEPT
                   !.sent = Append(@, <<c, bridge_recv[c].data>>)]
            /\ bridge_recv' = [bridge_recv EXCEPT ![c].pc = "get", ![c].data = 0]
       ELSE /\ on_bridge' = [on_bridge EXCEPT !.dropped = @ \cup {bridge_recv[c].data}]
            /\ \E pc \in {"break", "raised"} :
                 bridge_recv' = [bridge_recv EXCEPT ![c].pc = pc, ![c].data = 0]
    /\ UNCHANGED <<bridge_queue, bridge_env>>

\* the peer goes away; the handler notices at its next send
Disconnect(c) ==
    /\ c \in 1..Len(bridge_recv)
    /\ bridge_recv[c].pc \in {"get", "sleep", "send"}
    /\ bridge_recv[c].open
    /\ bridge_recv' = [bridge_recv EXCEPT ![c].open = FALSE]
    /\ UNCHANGED <<bridge_queue, on_bridge, bridge_env>>

NextBridge ==
    \/ EventsInit
    \/ \E by_bot \in BOOLEAN, empty \in BOOLEAN : OnMessage(by_bot, empty)
    \/ \E secret \in BOOLEAN : BridgeRecv(secret)
    \/ \E c \in 1..MaxClients :
          Accept(c) \/ GetNowait(c) \/ Sleep(c) \/ SendJson(c) \/ Disconnect(c)

InitBridge == OtherInit /\ AtRest

SpecBridge == InitBridge /\ [][NextBridge]_vars

\* ================================================================ claims
\* Vocabulary of the claims, stated on the state and not through the
\* operators the actions use.
InCS(i)        == handler[i].pc \notin {"unborn", "waiting", "done"}
AtExit(i)      == handler[i].pc = "exit"
IsSelfStarAdd(h) == h.user_id = Author /\ h.event_type = "REACTION_ADD"
\* the handler fetched the source message and computed a tally from it
Processed(h)   == h.message.valid /\ ~IsSelfStarAdd(h)
RecordsOf(m)   == {r \in store : r.id = m}
RecordsBefore(h) == {r \in h.store0 : r.id = h.message_id}
MirrorsWith(id) == {x \in mirrors : x.id = id}
AtOrAboveCap(tally) == 10 * tally >= member_count
SameRender(e, f) == e.src = f.src /\ e.stars = f.stars /\ e.ver = f.ver

\* ---------------------------------------------------------------- C1
\* C1: in every reachable state the store holds at most one row per source
\* message id (hence at most one non-null starboard_message per source).
C1_AtMostOneRecord ==
    \A r1 \in store, r2 \in store : r1.id = r2.id => r1 = r2

\* a later event found the record of a posted mirror (get_or_create did not create)
C1_Witness ==
    \E i \in Handlers :
        /\ handler[i].pc = "fetch_mirror"
        /\ ~handler[i].created
        /\ handler[i].entry \in store
        /\ handler[i].entry.starboard_message # None

\* ---------------------------------------------------------------- C2
\* C2 (as claimed): when a handler that read tally 0 and found the record of
\* a posted mirror finishes, that mirror is no longer in the starboard
\* channel and the message has no record.
C2_ZeroTallyDemotes ==
    \A i \in Handlers :
        LET h == handler[i] IN
        (AtExit(i) /\ Processed(h) /\ h.star_count = 0
                   /\ h.database.starboard_message # None)
        => /\ MirrorsWith(h.database.starboard_message) = {}
           /\ RecordsOf(h.message_id) = {}

\* ---------------------------------------------------------------- C3
\* C3: a handler that created the record with tally >= cap and found the
\* channel sendable finishes having posted a mirror, stored its id in the
\* record and scheduled the archiver; a handler whose pre-existing record
\* names a mirror that is still in the channel has posted nothing new: it
\* edited that mirror (or its fetch failed).
C3_PostedOnce ==
    \A i \in Handlers :
        LET h == handler[i] IN
        AtExit(i) /\ Processed(h) =>
          /\ (h.created /\ AtOrAboveCap(h.star_count) /\ h.channel = "ok")
             => /\ h.result = "posted"
                /\ h.msg.id \in MirrorIds
                /\ RecordsOf(h.message_id) =
                      {[h.entry EXCEPT !.starboard_message = h.msg.id]}
                /\ archiver[i].pc = "start" /\ archiver[i].msg = h.msg
          /\ (~h.created /\ h.entry.starboard_message # None
                /\ MirrorsWith(h.entry.starboard_message) # {})
             => /\ h.msg.id \in {None, h.entry.starboard_message}
                /\ h.result \in {"edited", "passed", "returned"}
                /\ h.channel = "ok" => h.result \in {"edited", "passed"}

\* the first event posted at tally = cap (population 20, 2 stars) and a later
\* event, reading a tally still at the cap, found that mirror and edited it
C3_Witness ==
    \E i \in Handlers :
        /\ AtExit(i) /\ ~handler[i].created
        /\ member_count = 20 /\ handler[i].star_count = 2
        /\ handler[i].result = "edited"
        /\ handler[i].msg.id = handler[i].entry.starboard_message
        /\ Cardinality(mirrors) = 1

SamePayload(h, g) ==
    /\ h.message_id = g.message_id /\ h.user_id = g.user_id
    /\ h.event_type = g.event_type /\ h.star = g.star /\ h.guild_id = g.guild_id

C6_MutualExclusion ==
    \A i \in Handlers, j \in Handlers :
        InCS(i) /\ InCS(j) => i = j /\ lock = i

\* one handler is at get_or_create while another waits for the lock
C6_Witness ==
    \E i \in Handlers, j \in Handlers :
        /\ handler[i].pc = "get_or_create"
        /\ handler[j].pc = "waiting"
        /\ waiters = <<j>>

\* ---------------------------------------------------------------- C7
\* C7: the handler of a star Add event whose actor is the message's author
\* is never at a position that reads or writes the store or the starboard
\* channel; it holds no row and no mirror, and the store it leaves is the
\* store it found.
C7_SelfStarStops ==
    \A i \in Handlers :
        LET h == handler[i] IN
        (h.star /\ h.guild_id /\ IsSelfStarAdd(h))
        => /\ h.pc \in {"waiting", "locked", "fetch_message", "remove_reaction",
                        "reply", "exit"}
           /\ h.database = NoRow /\ h.entry = NoRow /\ h.msg = NoMsg
           /\ h.channel = ""
           /\ AtExit(i) => store = h.store0 /\ h.result \in {"replied", "raised"}

\* the author starred a message that has a posted mirror and got the reply
C7_Witness ==
    \E i \in Handlers :
        /\ AtExit(i) /\ IsSelfStarAdd(handler[i]) /\ handler[i].star
        /\ handler[i].result = "replied"
        /\ handler[i].message.tally >= 1
        /\ \E r \in store : r.starboard_message # None

\* ---------------------------------------------------------------- C8
\* C8: when the fetch of a record's mirror finds it gone (and is not cut
\* short by another transport error) the handler goes on to post; the post
\* puts a new message in the channel; and the step after it stores that
\* message's id in the record and schedules the archiver for it.
C8_Repost ==
    [][\A i \in Handlers :
        LET h == handler[i]
            g == handler'[i]
        IN  /\ (h.pc = "fetch_mirror" /\ g.pc # "fetch_mirror"
                  /\ MirrorsWith(h.entry.starboard_message) = {}
                  /\ g.result # "passed")
               => g.pc = "send"
            /\ (h.pc = "send" /\ g.pc # "send" /\ ~h.created)
               => /\ g.pc = "entry_update"
                  /\ g.msg.id \notin {x.id : x \in mirrors} \cup {h.entry.starboard_message}
                  /\ g.msg \in mirrors'
                  /\ g.msg.embed.src = h.message_id
            /\ (h.pc = "entry_update" /\ g.pc # "entry_update" /\ ~h.created)
               => /\ g.pc = "exit" /\ g.result = "posted"
                  /\ {r \in store' : r.id = h.message_id} =
                        {[h.entry EXCEPT !.starboard_message = h.msg.id]}
                  /\ archiver'[i].pc = "start" /\ archiver'[i].msg = h.msg
      ]_vars

\* the record named a mirror that is gone; the handler has posted a new one,
\* the record names it and the archiver is scheduled
C8_Witness ==
    \E i \in Handlers :
        /\ AtExit(i) /\ ~handler[i].created /\ handler[i].result = "posted"
        /\ handler[i].entry.starboard_message # None
        /\ handler[i].msg.id # handler[i].entry.starboard_message
        /\ MirrorsWith(handler[i].entry.starboard_message) = {}
        /\ AtOrAboveCap(handler[i].star_count)
        /\ \E r \in store : r.starboard_message = handler[i].msg.id
        /\ archiver[i].pc = "start"

\* ---------------------------------------------------------------- C9
\* C9 (as claimed): the edit made by a star event leaves the mirror showing
\* the embed rendered from the snapshot the handler fetched, and when the
\* archiver task of that event edits a mirror that still shows that render,
\* the mirror shows it afterwards too (only the image is re-hosted).
C9_RenderSurvivesArchiver ==
    [][\A i \in Handlers :
        /\ (handler[i].pc = "edit" /\ handler'[i].result = "edited")
           => \E y \in mirrors' :
                /\ y.id = handler[i].msg.id
                /\ y.embed.stars = handler[i].message.tally
                /\ y.embed.ver = handler[i].message.ver
        /\ (archiver[i].pc = "edit" /\ archiver'[i].pc = "done")
           => \A x \in MirrorsWith(archiver[i].msg.id) :
                SameRender(x.embed, archiver[i].rendered)
                => \E y \in mirrors' : y.id = x.id /\ SameRender(y.embed, x.embed)
      ]_vars

\* ---------------------------------------------------------------- C10
\* C10: a handler that read a tally above 0 is never at a position of the
\* demotion path, deletes a row only if it created it, and while it works on
\* a pre-existing record of a posted mirror the record stays stored with a
\* mirror id; with the channel sendable it re-renders whatever the cap.
C10_PostedSurvives ==
    \A i \in Handlers :
        LET h == handler[i] IN
        (Processed(h) /\ h.star_count > 0)
        => /\ h.pc \notin {"get", "fetch_by_id", "delete_message", "database_delete"}
           /\ h.pc = "entry_delete" => h.created /\ h.entry.starboard_message = None
           /\ (h.pc \in {"fetch_mirror", "send", "entry_update", "edit", "exit"}
                 /\ ~h.created /\ h.entry.starboard_message # None)
              => /\ \E r \in RecordsOf(h.message_id) : r.starboard_message # None
                 /\ (AtExit(i) /\ h.channel = "ok")
                    => h.result \in {"edited", "posted", "raised", "passed"}

\* population 20 (cap 2), mirror posted, then one star left: the event edits
C10_Witness ==
    \E i \in Handlers :
        /\ AtExit(i) /\ ~handler[i].created
        /\ handler[i].star_count = 1 /\ ~AtOrAboveCap(1)
        /\ handler[i].entry.starboard_message # None
        /\ handler[i].result = "edited"
        /\ \E x \in mirrors : x.id = handler[i].msg.id /\ x.embed.stars = 1

\* ---------------------------------------------------------------- C11
\* C11 (as claimed): a handler that fetched the mirror named by a
\* pre-existing record never ends by an exception: whatever happens to the
\* mirror, it finishes having edited it or having posted a new one.
C11_MirrorErrorsCaught ==
    \A i \in Handlers :
        LET h == handler[i] IN
        (AtExit(i) /\ Processed(h) /\ ~h.created /\ h.star_count > 0
                   /\ h.msg.id # None /\ h.msg.id = h.entry.starboard_message)
        => h.result \in {"edited", "posted"}

\* ---------------------------------------------------------------- C12
\* C12: a handler that holds the lock always has a step it can take,
\* whatever the state of every archiver task (not yet run, half-way, over);
\* and a step of an archiver task changes no record, no handler and neither
\* the lock nor its queue.
C12_ArchiverDetached ==
    /\ [](\A i \in Handlers : InCS(i) => ENABLED on_star_add(i))
    /\ [][\A i \in Handlers :
            (archiver[i].pc \notin {"none", "done"} /\ archiver'[i] # archiver[i])
            => /\ store' = store
               /\ handler' = handler
               /\ lock' = lock /\ waiters' = waiters
         ]_vars

\* the task of the first event has not run yet; the second event's handler
\* has been through the store and the channel and is leaving
C12_Witness ==
    \E i \in Handlers, j \in Handlers :
        /\ i # j
        /\ archiver[i].pc = "start" /\ handler[i].pc = "done"
        /\ AtExit(j) /\ Processed(handler[j])
        /\ handler[j].result \in {"edited", "posted"}

\* ---------------------------------------------------------------- C13
\* C13 (as claimed): once the archiver holds the image response, a payload
\* longer than the effective limit ends the task with the mirror as it was
\* (remote image url, nothing attached), and a 200 payload not longer than
\* the limit makes the task go on to re-attach it.
C13_ArchiverSizeLimit ==
    [][\A i \in Handlers :
        LET a == archiver[i]
            b == archiver'[i]
        IN  (a.pc = "got" /\ b.pc # "got")
            => /\ a.r.length > a.FS_LIMIT => (b.pc = "done" /\ mirrors' = mirrors)
               /\ (a.r.status_code = 200 /\ a.r.length <= a.FS_LIMIT) => b.pc = "edit"
      ]_vars

\* ---------------------------------------------------------------- C14
\* C14: the Starboard Info command can run whenever it is invoked, also
\* while a handler holds the lock; its answer, when the renderer returns
\* one, is the embed of the message it was invoked on; and the step leaves
\* the store, the starboard channel, the lock and its queue, and every
\* handler and archiver as they were.
C14_InfoHasNoEffect ==
    /\ []((input.fn = "Starboard Info" /\ Len(output) < MaxCalls)
            => ENABLED get_starboard_info)
    /\ [][(input.fn = "Starboard Info" /\ output' # output)
            => /\ Len(output') = Len(output) + 1
               /\ output'[Len(output')].embed.error = ""
                    => /\ output'[Len(output')].embed.src = input.message_id
                       /\ output'[Len(output')].embed.stars = input.message.tally
               /\ store' = store /\ mirrors' = mirrors
               /\ next_id' = next_id /\ pending_delete' = pending_delete
               /\ lock' = lock /\ waiters' = waiters
               /\ handler' = handler /\ archiver' = archiver
         ]_vars

\* the command has answered for a message with a posted mirror, with two
\* stars, while a handler holds the lock
C14_Witness ==
    /\ input.fn = "Starboard Info" /\ input.message.tally = 2
    /\ Len(output) >= 1
    /\ lock # None /\ store # {} /\ mirrors # {}

C16_QualifiesIffTenth ==
    (input.fn = "threshold" /\ output # <<>> /\ ~output[1].population.raised)
    => LET t == input.message.tally
           p == output[1].population.n
       IN  /\ output[1].qualifies <=> 10 * t >= p
           /\ p = 0 => output[1].qualifies

\* population 15, cap 1.5: two stars qualify
C16_Witness ==
    /\ input.fn = "threshold" /\ output # <<>>
    /\ ~output[1].population.raised /\ output[1].population.n = 15
    /\ input.message.tally = 2
    /\ output[1].qualifies

\* ---------------------------------------------------------------- C17
\* C17 (as claimed): the population read for a new record is the thread's
\* member count when the source channel is a thread and the guild's member
\* count otherwise, reading it never fails, and the renderer called for a
\* qualifying message computes its cap from the same population.
C17_SamePopulation ==
    (input.fn = "threshold" /\ output # <<>>)
    => LET c == input.channel
           thread == c.type = "public_thread"
       IN  /\ ~output[1].population.raised
           /\ output[1].population.n =
                 IF thread THEN c.humans + c.bots ELSE GuildMemberCount
           /\ output[1].qualifies => output[1].rendered_for = output[1].population

\* ---------------------------------------------------------------- C18
\* C18: an event without a guild id never becomes a handler that waits for
\* or holds the lock (its task ends on delivery, touching nothing); the
\* handler of an event whose emoji is not the star is only ever waiting,
\* just locked or leaving, has fetched no message, read no record and holds
\* no mirror; and no step of either changes the store, the starboard
\* channel, a pending delete or a reaction.
C18_FilteredEventsNoEffect ==
    /\ [](\A i \in Handlers :
            LET h == handler[i] IN
            /\ h.pc \notin {"unborn", "done"} => h.guild_id
            /\ (h.pc \notin {"unborn", "done"} /\ ~h.star)
               => /\ h.pc \in {"waiting", "locked", "exit"}
                  /\ h.message = NoMessage /\ h.star_count = 0
                  /\ h.database = NoRow /\ h.entry = NoRow /\ h.msg = NoMsg
                  /\ AtExit(i) => h.result = "returned")
    /\ [][\A i \in Handlers :
            LET h == handler[i] IN
            /\ (h.pc = "unborn" /\ handler'[i].pc = "done")
               => /\ store' = store /\ mirrors' = mirrors /\ next_id' = next_id
                  /\ pending_delete' = pending_delete /\ reactions' = reactions
                  /\ lock' = lock /\ waiters' = waiters /\ archiver' = archiver
            /\ (h.pc \in {"locked", "exit"} /\ ~h.star /\ handler'[i] # h)
               => /\ store' = store /\ mirrors' = mirrors /\ next_id' = next_id
                  /\ pending_delete' = pending_delete /\ reactions' = reactions
                  /\ archiver' = archiver
         ]_vars

\* a non-star event's handler is leaving, and the event delivered after it,
\* which never queued for the lock the first one still holds, had no guild
C18_Witness ==
    /\ delivered = 2
    /\ AtExit(1) /\ ~handler[1].star /\ handler[1].guild_id
    /\ handler[2].pc = "done"
    /\ Cardinality(reactions[1]) >= 1

C20_EmbedsList ==
    (input.fn = "embeds" /\ output # <<>>)
    => LET embeds == output[1].embeds
           source == input.message.embeds
           rich_upto(j) == {k \in 1..j : source[k].type = "rich"}
           first9 == {j \in 1..Len(source) :
                        source[j].type = "rich" /\ Cardinality(rich_upto(j)) <= 9}
       IN  /\ Len(embeds) >= 1 /\ Len(embeds) <= 10
           /\ embeds[1].generated = output[1].embed /\ embeds[1].n = 0
           /\ \A k \in 2..Len(embeds) :
                /\ embeds[k].n \in first9
                /\ embeds[k].type = source[embeds[k].n].type
                /\ embeds[k - 1].n < embeds[k].n
           /\ {embeds[k].n : k \in 2..Len(embeds)} = first9

\* a source with ten rich embeds: the list is cut to the generated embed and
\* the first nine
C20_Witness ==
    /\ input.fn = "embeds" /\ output # <<>>
    /\ Len(input.message.embeds) = 10
    /\ \A k \in 1..10 : input.message.embeds[k].type = "rich"
    /\ Len(output[1].embeds) = 10
    /\ output[1].embeds[10].n = 9

\* ---------------------------------------------------------------- C21
\* the number a sequence of decimal digit characters denotes
RECURSIVE DecimalValue(_)
DecimalValue(text) ==
    IF text = <<>> THEN 0
    ELSE 10 * DecimalValue(SubSeq(text, 1, Len(text) - 1))
         + (CHOOSE d \in 0..9 : Digits[d + 1] = text[Len(text)])

\* C21: the rendered star text of a message that n users have starred is n
\* star glyphs when 1 <= n <= 5, one glyph, an "x" and the number n when
\* n > 5, and the no-entry sign when n = 0; and the tally rendered for a
\* message whose reaction list has no star entry is 0, whatever other
\* reactions it has.
C21_StarsText ==
    \A k \in 1..Len(output) :
        (input.fn = "Starboard Info" /\ output[k].embed.error = "")
        => LET n == input.message.tally
               text == output[k].embed.stars_text
               listed == \E j \in 1..Len(input.message.reactions) :
                            input.message.reactions[j].emoji = "star"
           IN  /\ n = 0 => text = <<"no_entry">>
               /\ n \in 1..5 => /\ Len(text) = n
                                /\ \A j \in 1..n : text[j] = "star"
               /\ n > 5 => /\ Len(text) > 2
                           /\ text[1] = "star" /\ text[2] = "x"
                           /\ DecimalValue(SubSeq(text, 3, Len(text))) = n
               /\ ~listed => output[k].embed.stars = 0
               /\ listed => output[k].embed.stars = n

\* a message with more than five stars, listed after another emoji in its
\* reaction list, has been rendered
C21_Witness ==
    /\ input.fn = "Starboard Info" /\ Len(output) >= 1
    /\ output[1].embed.error = ""
    /\ input.message.tally = MaxTally /\ MaxTally > 5
    /\ Len(input.message.reactions) = 2

\* ---------------------------------------------------------------- C22
\* C22 (as claimed): for every attachment list the renderer returns an
\* embed with exactly one link field per attachment, in order, masked
\* exactly for the spoilers; and the embed's image is the url of the first
\* attachment that is image-typed and not a spoiler, or no image when there
\* is no such attachment.
C22_Attachments ==
    \A k \in 1..Len(output) :
        input.fn = "Starboard Info"
        => LET files == input.message.attachments
               embed == output[k].embed
               images == {j \in 1..Len(files) :
                             files[j].content_type = "image" /\ ~files[j].spoiler}
           IN  /\ embed.error = ""
               /\ Len(embed.fields) = Len(files)
               /\ \A j \in 1..Len(files) :
                      /\ embed.fields[j].url = files[j].url
                      /\ embed.fields[j].masked = files[j].spoiler
               /\ images = {} => embed.image = "none"
               /\ images # {}
                    => /\ embed.image = "remote"
                       /\ \E j \in images :
                              /\ embed.image_url = files[j].url
                              /\ \A i \in images : j <= i

\* ---------------------------------------------------------------- C23
\* C23: a mirror is posted only by a handler that holds the lock and goes
\* on to record it; the step that records it leaves the record of that
\* source with the id of the mirror just posted; a record gets a non-null
\* mirror id in no other way and keeps a non-null id as long as it is
\* stored; and no handler is between posting and recording while the lock
\* is free. Hence, with the lock free, a record has a mirror id exactly if
\* a mirror was posted for its source since the record was created.
C23_MirrorIdIffPosted ==
    /\ [](lock = None
            => \A i \in Handlers : handler[i].pc \in {"unborn", "waiting", "done"})
    /\ [][\A m \in Msgs :
            LET before == {r \in store : r.id = m}
                after == {r \in store' : r.id = m}
                recording == {i \in Handlers :
                                 /\ handler[i].pc = "entry_update"
                                 /\ handler'[i].pc # "entry_update"
                                 /\ handler[i].entry.id = m}
                posted == {x \in mirrors' : x.embed.src = m /\ MirrorsWith(x.id) = {}}
            IN  /\ \A x \in posted :
                       \E i \in Handlers :
                          /\ lock = i /\ lock' = i
                          /\ handler[i].pc = "send" /\ handler'[i].pc = "entry_update"
                          /\ handler'[i].msg = x /\ handler[i].entry.id = m
                          /\ before # {}
                /\ \A i \in recording :
                       /\ after # {}
                       /\ \A r \in after : r.starboard_message = handler[i].msg.id
                       /\ handler[i].msg.embed.src = m
                /\ \A r \in after :
                       r.starboard_message # None
                       => \/ r \in before
                          \/ \E i \in recording : r.starboard_message = handler[i].msg.id
                /\ \A r \in before :
                       r.starboard_message # None
                       => \A q \in after : q.starboard_message # None
         ]_vars

\* the lock is free, a handler has finished, and the record of a source
\* carries the id of the mirror posted for it
C23_Witness ==
    /\ lock = None
    /\ \E i \in Handlers : handler[i].pc = "done"
    /\ \E r \in store :
          /\ r.starboard_message # None
          /\ \E x \in MirrorsWith(r.starboard_message) : x.embed.src = r.id

\* ---------------------------------------------------------------- C24
\* C24 (as claimed): at any time the starboard channel holds at most one
\* mirror per source message.
C24_AtMostOneMirror ==
    \A m \in Msgs : Cardinality({x \in mirrors : x.embed.src = m}) <= 1

\* ---------------------------------------------------------------- C25
\* C25 (as claimed): when the handler of a later event has already written
\* the mirror (it posted or edited, and so created its own task), the edit
\* made by the archiver task of an earlier event leaves the mirror showing
\* what it showed before that edit.
C25_LaterRenderSurvives ==
    [][\A i \in Handlers, j \in Handlers :
        (/\ i < j
         /\ archiver[i].pc = "edit" /\ archiver'[i].pc = "done"
         /\ handler[j].pc = "done" /\ archiver[j].pc # "none")
        => \A x \in MirrorsWith(archiver[i].msg.id) :
              \E y \in mirrors' : y.id = x.id /\ SameRender(y.embed, x.embed)
      ]_vars

\* ---------------------------------------------------------------- C26
\* C26 (as claimed): a handler that read a tally of 0 never reaches the
\* post of a mirror, and when it leaves no record is stored for its
\* message.
C26_ZeroTallyNeverPosts ==
    \A i \in Handlers :
        LET h == handler[i]
        IN  (Processed(h) /\ h.star_count = 0)
            => /\ h.pc \notin {"send", "entry_update"}
               /\ h.result # "posted"
               /\ AtExit(i) => RecordsOf(h.message_id) = {}

\* ---------------------------------------------------------------- C27
\* C27: a handler that read a tally of 0 for a message that had no record
\* when it took the lock only looks the record up and returns: it never
\* reaches get_or_create (it holds no entry and created nothing), no step
\* of it changes the store, the starboard channel, the scheduled deletions
\* or any archiver task, and when it leaves no record exists for the
\* message.
C27_ZeroTallyNoRecordNoEffect ==
    /\ [](\A i \in Handlers :
            LET h == handler[i]
            IN  (Processed(h) /\ h.star_count = 0 /\ RecordsBefore(h) = {})
                => /\ h.pc \in {"get", "exit"}
                   /\ h.entry = NoRow /\ ~h.created /\ h.msg = NoMsg
                   /\ RecordsOf(h.message_id) = {}
                   /\ AtExit(i) => (h.result = "returned" /\ store = h.store0))
    /\ [][\A i \in Handlers :
            LET h == handler[i]
            IN  (/\ Processed(h) /\ h.star_count = 0 /\ RecordsBefore(h) = {}
                 /\ handler'[i] # h /\ h.pc # "exit")
                => /\ store' = store /\ mirrors' = mirrors /\ next_id' = next_id
                   /\ pending_delete' = pending_delete /\ archiver' = archiver
                   /\ handler'[i].pc = "exit"
         ]_vars

\* the handler of a star removal has returned after reading tally 0 for a
\* message without a record
C27_Witness ==
    \E i \in Handlers :
        LET h == handler[i]
        IN  /\ AtExit(i) /\ Processed(h) /\ h.star_count = 0
            /\ h.event_type = "REACTION_REMOVE"
            /\ RecordsBefore(h) = {} /\ h.result = "returned"

\* ---------------------------------------------------------------- C28
\* the handler read a tally above 0 for a message whose record, when it
\* took the lock, had a null mirror id
FoundUnposted(h) ==
    /\ Processed(h) /\ h.star_count > 0
    /\ \E r \in RecordsBefore(h) : r.starboard_message = None

\* C28: a handler that created the record with a tally at or above the cap
\* and found the starboard channel missing or not sendable leaves the
\* record stored with a null mirror id. A later handler that reads a tally
\* above 0 and finds such a record only returns, also when it finds the
\* channel sendable: it posts and edits nothing and the record stays as it
\* was. A record with a null mirror id leaves the store only in the delete
\* of a handler that read tally 0, or in the delete by which its creator
\* removes it for being below the cap.
C28_UnpostedRecordStays ==
    /\ [](\A i \in Handlers :
            LET h == handler[i]
            IN  /\ (/\ AtExit(i) /\ Processed(h) /\ h.created
                     /\ h.star_count > 0 /\ AtOrAboveCap(h.star_count)
                     /\ h.channel \in {"none", "readonly"})
                    => /\ h.result = "returned"
                       /\ RecordsOf(h.message_id) =
                              {[h.entry EXCEPT !.starboard_message = None]}
                /\ FoundUnposted(h)
                    => /\ h.pc \in {"get_or_create", "exit"}
                       /\ h.msg = NoMsg /\ ~h.created
                       /\ RecordsOf(h.message_id) = RecordsBefore(h)
                       /\ AtExit(i) => h.result = "returned")
    /\ [][/\ \A i \in Handlers :
               (FoundUnposted(handler[i]) /\ handler'[i] # handler[i]
                   /\ handler[i].pc # "exit")
               => /\ store' = store /\ mirrors' = mirrors
                  /\ next_id' = next_id /\ archiver' = archiver
          /\ \A r \in store :
               (r.starboard_message = None /\ \A q \in store' : q.id # r.id)
               => \E i \in Handlers :
                     LET h == handler[i]
                     IN  /\ lock = i /\ h.message_id = r.id
                         /\ \/ h.pc = "database_delete" /\ h.star_count = 0
                            \/ /\ h.pc = "entry_delete" /\ h.created
                               /\ ~AtOrAboveCap(h.star_count)
         ]_vars

\* a handler read a tally at or above the cap, found the channel sendable
\* and the record left without a mirror by an earlier event, and returned:
\* nothing is posted
C28_Witness ==
    \E i \in Handlers :
        LET h == handler[i]
        IN  /\ AtExit(i) /\ FoundUnposted(h) /\ AtOrAboveCap(h.star_count)
            /\ h.channel = "ok" /\ h.result = "returned"
            /\ mirrors = {}
            /\ \E r \in RecordsOf(h.message_id) : r.starboard_message = None

\* ---------------------------------------------------------------- C30
\* C30: an archiver task whose embed has no image ends at once. One whose
\* fetch of the image url failed fetches once more exactly if the image has
\* a proxy url, and then either holds a response or ends; without a proxy
\* url it ends. Up to there it edits nothing: the mirror is changed by a
\* task only in the edit that follows a response that passed the test.
\* No step of a task changes a handler, the lock or its queue.
C30_ArchiverFetchFailure ==
    /\ [](\A i \in Handlers :
            archiver[i].pc \in {"failed", "got", "edit"}
            => archiver[i].msg.embed.image # "none")
    /\ [][\A i \in Handlers :
            LET a == archiver[i]
                b == archiver'[i]
            IN  (a.pc \in {"start", "failed", "got", "edit"} /\ b # a)
                => /\ handler' = handler /\ lock' = lock /\ waiters' = waiters
                   /\ store' = store
                   /\ a.pc # "edit" => mirrors' = mirrors
                   /\ a.pc = "start"
                        => /\ b.pc \in {"done", "failed", "got"}
                           /\ a.msg.embed.image = "none" => b.pc = "done"
                   /\ a.pc = "failed"
                        => /\ a.proxy_url => b.pc \in {"got", "done"}
                           /\ ~a.proxy_url => b.pc = "done"
                   /\ a.pc = "got" => b.pc \in {"edit", "done"}
         ]_vars

\* the fetch of the image url of a posted mirror has failed and the image
\* has a proxy url; the handler that posted has finished
C30_Witness ==
    \E i \in Handlers :
        /\ archiver[i].pc = "failed" /\ archiver[i].proxy_url
        /\ handler[i].pc = "done"
        /\ MirrorsWith(archiver[i].msg.id) = {archiver[i].msg}

\* ---------------------------------------------------------------- C29
\* C29: a handler that is over neither holds the lock nor waits for it,
\* and a handler at any exit of the block - return, fall-through or
\* uncaught exception - still holds it; and, every call returning or
\* raising, the handler of every delivered event eventually is over, and
\* every handler waiting for the lock gets it.
C29_LockReleased ==
    /\ [](\A i \in Handlers :
            /\ handler[i].pc \in {"unborn", "done"}
                => /\ lock # i
                   /\ \A k \in 1..Len(waiters) : waiters[k] # i
            /\ AtExit(i) => lock = i)
    /\ \A i \in Handlers :
          (handler[i].pc \notin {"unborn", "done"}) ~> (handler[i].pc = "done")
    /\ \A i \in Handlers :
          (handler[i].pc = "waiting") ~> (lock = i)

\* a handler ended on an uncaught exception (the source message could not
\* be fetched) while a later event's handler waited for the lock, and that
\* handler has since got the lock
C29_Witness ==
    \E i \in Handlers, j \in Handlers :
        /\ i < j
        /\ handler[i].pc = "done" /\ ~exists[1]
        /\ lock = j /\ handler[j].pc = "fetch_message"

\* ---------------------------------------------------------------- C31
\* C31 (as claimed): for a reported limit of 8 MiB the effective limit is
\* four times the reported value, and for every other reported limit it is
\* the reported value.
C31_QuadrupledLimit ==
    (input.fn = "FS_LIMIT" /\ output # <<>>)
    => output[1].FS_LIMIT = IF input.filesize_limit = 8 * 1024 * 1024
                            THEN 4 * input.filesize_limit
                            ELSE input.filesize_limit

\* C31 (amended): for a reported limit of 8 MiB the effective limit is
\* 25 MiB, which is less than four times the reported value; for every
\* other reported limit it is the reported value.
C31_EffectiveLimit ==
    (input.fn = "FS_LIMIT" /\ output # <<>>)
    => /\ input.filesize_limit = 8 * 1024 * 1024
           => /\ output[1].FS_LIMIT = 25 * 1024 * 1024
              /\ output[1].FS_LIMIT < 4 * input.filesize_limit
       /\ input.filesize_limit # 8 * 1024 * 1024
           => output[1].FS_LIMIT = input.filesize_limit

\* FS_LIMIT has been computed for a guild that reports 8 MiB
C31_Witness ==
    /\ input.fn = "FS_LIMIT" /\ input.filesize_limit = 8 * 1024 * 1024
    /\ output # <<>>

\* ---------------------------------------------------------------- C32
\* C32: for a reply whose referenced message could not be fetched the
\* renderer returns an embed, without an "In reply to" field, and the
\* handler's code that called it goes on to assemble the embed list with
\* that embed first; an embed never has more than one "In reply to"
\* field, also when the referenced message is a reply itself, and has one
\* exactly when the referenced message was fetched.
C32_ReferenceFetchFailure ==
    \A k \in 1..Len(output) :
        input.fn \in {"Starboard Info", "embeds"}
        => LET embed == output[k].embed
               reference == input.message.reference
           IN  /\ reference = "failed"
                    => /\ embed.error = "" /\ embed.reply = <<>>
                       /\ embed.src = input.message_id
                       /\ input.fn = "embeds" => output[k].embeds[1].generated = embed
               /\ embed.error = ""
                    => /\ Len(embed.reply) <= 1
                       /\ Len(embed.reply) = 1 <=> reference = "found"

\* the handler's call rendered a reply whose referenced message could not
\* be fetched, and assembled the embed list
C32_Witness ==
    /\ input.fn = "embeds" /\ input.message.reference = "failed"
    /\ output # <<>>
    /\ Len(output[1].embeds) > 1

\* ---------------------------------------------------------------- C33
\* C33 (as claimed): once a task has thanked a member for saying the word,
\* and as long as no new break was started for them, the member is not a
\* target and no message they sent later is deleted.
C33_BreakEnds ==
    \A k \in 1..Len(on_message) :
        LET task == on_message[k]
        IN  (/\ task.pc = "done" /\ task.result = "thanked"
             /\ commercial_break.started[task.author] = task.break)
            => /\ task.author \notin DOMAIN targets
               /\ \A j \in 1..Len(on_message) :
                      (j > k /\ on_message[j].author = task.author)
                      => ~on_message[j].deleted

\* ---------------------------------------------------------------- C34
\* C34: an OAuth state is single-use. A code exchange starts only for a
\* state that is stored, and the step that starts it has removed the state
\* from the container; so every state value was accepted at most as often
\* as it was issued, less once if it is still stored.
C34_Consumed ==
    \A value \in StateValues :
        authenticate.accepted[value] + (IF value \in DOMAIN states THEN 1 ELSE 0)
            <= authenticate.issued[value]
C34_ExchangeStep ==
    Len(authenticate'.exchange) > Len(authenticate.exchange)
    => LET state == authenticate'.exchange[Len(authenticate'.exchange)].state
       IN  /\ state \in DOMAIN states
           /\ state \notin DOMAIN states'
           /\ authenticate.issued[state] > authenticate.accepted[state]
C34_SingleUse == []C34_Consumed /\ [][C34_ExchangeStep]_vars
\* a state was issued once and accepted once, and the request that brought
\* it again with a code was redirected to Discord with a new state
C34_Witness ==
    \E value \in StateValues :
        /\ authenticate.issued[value] = 1
        /\ authenticate.accepted[value] = 1
        /\ authenticate.last = [code |-> "code", state |-> value, status |-> 307]
        /\ value \notin DOMAIN states

\* ---------------------------------------------------------------- C35
\* C35: a payload put on the bridge queue is sent at most once and so to at
\* most one client; each client is sent its payloads in the order they
\* were put; a payload whose send failed on a closed connection is on no
\* queue, is held by no handler and is never sent.
C35_AtMostOnce ==
    LET sent == on_bridge.sent
    IN  /\ \A i \in DOMAIN sent, j \in DOMAIN sent :
               i # j => sent[i][2] # sent[j][2]
        /\ \A i \in DOMAIN sent, j \in DOMAIN sent :
               (i < j /\ sent[i][1] = sent[j][1]) => sent[i][2] < sent[j][2]
        /\ \A i \in DOMAIN sent : sent[i][2] \in 1..bridge_queue.put
        /\ \A payload \in on_bridge.dropped :
               /\ \A i \in DOMAIN sent : sent[i][2] # payload
               /\ \A q \in DOMAIN bridge_queue.objects :
                      \A i \in DOMAIN bridge_queue.objects[q] :
                          bridge_queue.objects[q][i] # payload
               /\ \A c \in DOMAIN bridge_recv : bridge_recv[c].data # payload
\* the first payload was dropped by a handler whose peer had gone, and the
\* second was sent to the other client
C35_Witness ==
    /\ on_bridge.dropped = {1}
    /\ \E c \in DOMAIN bridge_recv :
          /\ on_bridge.sent = << <<c, 2>> >>
          /\ bridge_recv[c].open
====
